---- MODULE Spec2Model ----
(***************************************************************************)
(* State-machine model of the Kaggle VS Code extension: the submitting     *)
(* commands kaggle.pushRun and kaggle.runCurrentNotebook, the attach       *)
(* command, the CLI invoker runKaggleCLI and the poll loop                 *)
(* pollAndDownload (src/src/extension.ts, src/src/commands/authCommands.ts *)
(* and the scaffold module initProject).                                   *)
(*                                                                         *)
(* Every await of the source is a point where another command execution    *)
(* or the clock may take a step; consecutive synchronous statements are    *)
(* one action.  JavaScript objects are records whose DOMAIN is the set of  *)
(* keys present; text is a sequence of one-character strings.              *)
(***************************************************************************)
EXTENDS Integers, Sequences, FiniteSets, TLC

(***************************************************************************)
(* Bounds of the model.                                                    *)
(***************************************************************************)
\* number of command executions the user triggers in one behaviour
MaxTriggers == 2
\* largest N of the fetch stub "empty for the first N attempts"
MaxN == 1
\* longest time, in clock ticks, one CLI process runs before it exits
MaxFetchTicks == 2
\* longest slug typed into the prompt of kaggle.linkNotebook
MaxArgLen == 3
\* deepest nesting of directories under the output directory
MaxDepth == 2
\* longest field value of a CSV row
MaxFieldLen == 2

\* the command executions that may be in progress at the same time: e1 runs
\* any command, e2 is a command the user triggers while e1 is still running
Execs == {"e1", "e2"}

(***************************************************************************)
(* Time.  Date.now() is in milliseconds; the clock advances in ticks of    *)
(* one second.                                                             *)
(***************************************************************************)
\* timeoutSeconds * 1000, intervalSeconds * 1000
MsPerSecond == 1000
\* Math.max(1000, ...): the floor of the sleep between two attempts
MinSleepMs == 1000
TickMs == MsPerSecond
MaxFetchMs == MaxFetchTicks * TickMs

(***************************************************************************)
(* Text.                                                                   *)
(***************************************************************************)
Lower == {"a", "b", "c", "d", "e", "f", "g", "h", "i", "j", "k", "l", "m",
          "n", "o", "p", "q", "r", "s", "t", "u", "v", "w", "x", "y", "z"}
Digits == {"0", "1", "2", "3", "4", "5", "6", "7", "8", "9"}
\* the character class [\w\-\/] of the URL pattern (upper case is not used
\* by any text of the model)
UrlChar == Lower \cup Digits \cup {"_", "-", "/"}

HttpText == <<"h", "t", "t", "p">>
HostText == <<":", "/", "/", "w", "w", "w", ".", "k", "a", "g", "g", "l", "e",
              ".", "c", "o", "m", "/">>

\* t has the literal lit at position i
HasAt(t, i, lit) ==
    /\ i + Len(lit) - 1 <= Len(t)
    /\ \A j \in 1..Len(lit) : t[i + j - 1] = lit[j]

\* number of consecutive UrlChar characters of t from position i on
RECURSIVE RunLen(_, _)
RunLen(t, i) ==
    IF i <= Len(t) /\ t[i] \in UrlChar THEN 1 + RunLen(t, i + 1) ELSE 0

\* position after "http" and the optional "s" when the fixed part of the
\* pattern /https?:\/\/www\.kaggle\.com\/[\w\-\/]+/ matches at i, else 0
BodyAt(t, i) ==
    IF ~HasAt(t, i, HttpText) THEN 0
    ELSE IF HasAt(t, i + 4, <<"s">>) /\ HasAt(t, i + 5, HostText)
         THEN i + 5 + Len(HostText)
    ELSE IF HasAt(t, i + 4, HostText) THEN i + 4 + Len(HostText)
    ELSE 0

\* the pattern matches at position i of t
MatchesAt(t, i) == BodyAt(t, i) # 0 /\ RunLen(t, BodyAt(t, i)) >= 1

\* String.prototype.match with the URL pattern: the leftmost match, greedy
\* in [\w\-\/]+; the empty text stands for "no match" (undefined)
NoUrl == << >>
UrlMatch(t) ==
    IF \E i \in 1..Len(t) : MatchesAt(t, i)
    THEN LET i == CHOOSE k \in 1..Len(t) :
                    /\ MatchesAt(t, k)
                    /\ \A m \in 1..(k - 1) : ~MatchesAt(t, m)
         IN  SubSeq(t, i, BodyAt(t, i) + RunLen(t, BodyAt(t, i)) - 1)
    ELSE NoUrl

(***************************************************************************)
(* Files and JavaScript objects.                                           *)
(***************************************************************************)
\* a file that does not exist (fs reports ENOENT)
Absent == [absent |-> TRUE]
\* the empty object {}
EmptyObj == [k \in {} |-> TRUE]

Has(o, k) == k \in DOMAIN o
\* o.k = v
Put(o, k, v) == [f \in DOMAIN o \cup {k} |-> IF f = k THEN v ELSE o[f]]
\* truthiness of a string-valued property: present and not ""
TruthyStr(o, k) == Has(o, k) /\ o[k] # ""
\* the same for a property held as text (a sequence of characters)
TruthyText(o, k) == Has(o, k) /\ o[k] # << >>
\* String.prototype.endsWith
EndsWith(t, suffix) ==
    Len(t) >= Len(suffix) /\ SubSeq(t, Len(t) - Len(suffix) + 1, Len(t)) = suffix

\* Array.from(new Set([...list, item])): first occurrences, in order
RECURSIVE Dedupe(_)
Dedupe(s) ==
    IF s = << >> THEN << >>
    ELSE LET front == Dedupe(SubSeq(s, 1, Len(s) - 1))
             last == s[Len(s)]
         IN  IF \E i \in 1..Len(front) : front[i] = last
             THEN front ELSE Append(front, last)

(***************************************************************************)
(* kaggle.yml -> kernel-metadata.json.                                     *)
(***************************************************************************)
\* meta.id = yml.kernel_slug || meta.id (an undefined value is dropped by
\* JSON.stringify, a falsy yml value leaves meta.id as it was)
SyncId(yml, meta) ==
    IF TruthyText(yml, "kernel_slug") THEN Put(meta, "id", yml.kernel_slug)
    ELSE meta

\* meta.code_file = yml.code_file || meta.code_file
SyncCodeFile(yml, meta) ==
    IF TruthyText(yml, "code_file") THEN Put(meta, "code_file", yml.code_file)
    ELSE meta

\* yml.datasets || meta.dataset_sources || []  (an array is always truthy)
SourcesOf(yml, ykey, meta, mkey) ==
    IF Has(yml, ykey) THEN yml[ykey]
    ELSE IF Has(meta, mkey) THEN meta[mkey]
    ELSE << >>

\* the assignments common to both submitting commands
SyncCommon(yml, meta) ==
    LET m1 == SyncCodeFile(yml, SyncId(yml, meta))
        m2 == Put(m1, "is_private",
                  (IF TruthyStr(yml, "privacy") THEN yml.privacy
                   ELSE "private") = "private")
        m3 == Put(m2, "enable_gpu",
                  Has(yml, "accelerator") /\ yml.accelerator = "gpu")
    IN  m3

SyncTail(yml, meta) ==
    LET m4 == Put(meta, "enable_internet", Has(yml, "internet") /\ yml.internet)
        m5 == Put(m4, "dataset_sources",
                  SourcesOf(yml, "datasets", meta, "dataset_sources"))
        m6 == Put(m5, "competition_sources",
                  SourcesOf(yml, "competitions", meta, "competition_sources"))
    IN  m6

\* kaggle.runCurrentNotebook: sets enable_tpu as well
SyncMetaRun(yml, meta) ==
    SyncTail(yml, Put(SyncCommon(yml, meta), "enable_tpu",
                      Has(yml, "accelerator") /\ yml.accelerator = "tpu"))

\* kaggle.pushRun: enable_tpu is not assigned
SyncMetaPush(yml, meta) == SyncTail(yml, SyncCommon(yml, meta))

(***************************************************************************)
(* The command line of a CLI invocation.                                   *)
(***************************************************************************)
DQ == "\""
SQ == "'"
BS == "\\"
SP == " "

\* arg.replace(/"/g, '""')
RECURSIVE DoubleQuotes(_)
DoubleQuotes(t) ==
    IF t = << >> THEN << >>
    ELSE (IF Head(t) = DQ THEN <<DQ, DQ>> ELSE <<Head(t)>>) \o DoubleQuotes(Tail(t))

\* arg.replace(/'/g, "'\\''")
RECURSIVE EscapeSingle(_)
EscapeSingle(t) ==
    IF t = << >> THEN << >>
    ELSE (IF Head(t) = SQ THEN <<SQ, BS, SQ, SQ>> ELSE <<Head(t)>>)
         \o EscapeSingle(Tail(t))

escapeShellArg(plat, arg) ==
    IF plat = "win32" THEN <<DQ>> \o DoubleQuotes(arg) \o <<DQ>>
    ELSE <<SQ>> \o EscapeSingle(arg) \o <<SQ>>

\* Array.prototype.join(' ')
RECURSIVE Join(_)
Join(ts) ==
    IF ts = << >> THEN << >>
    ELSE IF Len(ts) = 1 THEN ts[1]
    ELSE ts[1] \o <<SP>> \o Join(Tail(ts))

\* `${cliPath} ${args.map(escapeShellArg).join(' ')}`
CommandLine(plat, cliPath, args) ==
    cliPath \o <<SP>> \o Join([i \in 1..Len(args) |-> escapeShellArg(plat, args[i])])

\* `$ ${cliPath} ${args.join(' ')}`
Echo(cliPath, args) == <<"$", SP>> \o cliPath \o <<SP>> \o Join(args)

\* text t holds text u as a substring
Contains(t, u) ==
    \E i \in 1..(Len(t) - Len(u) + 1) : SubSeq(t, i, i + Len(u) - 1) = u

(***************************************************************************)
(* The tokenizers that take the command line apart again: /bin/sh, which   *)
(* exec runs the line with elsewhere, and on win32 the argument rules of   *)
(* the C runtime of the started program.                                   *)
(***************************************************************************)
\* the token under construction is closed
Flush(cur, started, out) == IF started THEN Append(out, cur) ELSE out

\* sh: single quotes keep everything, a backslash outside quotes keeps the
\* next character, double quotes keep all but \" and \\
RECURSIVE ShTokens(_, _, _, _, _, _)
ShTokens(t, i, mode, cur, started, out) ==
    IF i > Len(t) THEN Flush(cur, started, out)
    ELSE LET c == t[i]
         IN  IF mode = "single"
             THEN IF c = SQ THEN ShTokens(t, i + 1, "plain", cur, TRUE, out)
                  ELSE ShTokens(t, i + 1, "single", Append(cur, c), TRUE, out)
             ELSE IF mode = "double"
             THEN IF c = DQ THEN ShTokens(t, i + 1, "plain", cur, TRUE, out)
                  ELSE IF c = BS /\ i < Len(t) /\ t[i + 1] \in {DQ, BS}
                       THEN ShTokens(t, i + 2, "double", Append(cur, t[i + 1]), TRUE, out)
                  ELSE ShTokens(t, i + 1, "double", Append(cur, c), TRUE, out)
             ELSE IF c = SP
                  THEN ShTokens(t, i + 1, "plain", << >>, FALSE, Flush(cur, started, out))
                  ELSE IF c = SQ THEN ShTokens(t, i + 1, "single", cur, TRUE, out)
                  ELSE IF c = DQ THEN ShTokens(t, i + 1, "double", cur, TRUE, out)
                  ELSE IF c = BS
                       THEN IF i < Len(t)
                            THEN ShTokens(t, i + 2, "plain", Append(cur, t[i + 1]), TRUE, out)
                            ELSE ShTokens(t, i + 1, "plain", cur, started, out)
                  ELSE ShTokens(t, i + 1, "plain", Append(cur, c), TRUE, out)

\* the number of backslashes of t from position i on
RECURSIVE Slashes(_, _)
Slashes(t, i) == IF i <= Len(t) /\ t[i] = BS THEN 1 + Slashes(t, i + 1) ELSE 0

\* n backslashes
Backslashes(n) == [k \in 1..n |-> BS]

\* win32: 2n backslashes before a double quote are n backslashes and the
\* quote opens or closes; 2n+1 are n backslashes and a literal quote; ""
\* inside quotes is a literal quote; other backslashes are literal
RECURSIVE WinTokens(_, _, _, _, _, _)
WinTokens(t, i, quoted, cur, started, out) ==
    IF i > Len(t) THEN Flush(cur, started, out)
    ELSE LET c == t[i]
             n == Slashes(t, i)
         IN  IF c = BS
             THEN IF i + n <= Len(t) /\ t[i + n] = DQ
                  THEN IF n % 2 = 1
                       THEN WinTokens(t, i + n + 1, quoted,
                                      cur \o Backslashes(n \div 2) \o <<DQ>>, TRUE, out)
                       ELSE WinTokens(t, i + n, quoted,
                                      cur \o Backslashes(n \div 2), TRUE, out)
                  ELSE WinTokens(t, i + n, quoted, cur \o Backslashes(n), TRUE, out)
             ELSE IF c = DQ
             THEN IF quoted /\ i < Len(t) /\ t[i + 1] = DQ
                  THEN WinTokens(t, i + 2, TRUE, Append(cur, DQ), TRUE, out)
                  ELSE WinTokens(t, i + 1, ~quoted, cur, TRUE, out)
             ELSE IF c = SP /\ ~quoted
                  THEN WinTokens(t, i + 1, FALSE, << >>, FALSE, Flush(cur, started, out))
             ELSE WinTokens(t, i + 1, quoted, Append(cur, c), TRUE, out)

\* the argument vector the started program sees
Tokenize(plat, line) ==
    IF plat = "win32" THEN WinTokens(line, 1, FALSE, << >>, FALSE, << >>)
    ELSE ShTokens(line, 1, "plain", << >>, FALSE, << >>)

(***************************************************************************)
(* Credentials.  A stored JSON text is modelled by what JSON.parse makes   *)
(* of it: unset (undefined or ""), malformed (JSON.parse throws), or the   *)
(* properties of the parsed value.  A property value is a JavaScript       *)
(* value: a string (held as text) or a number.                             *)
(***************************************************************************)
Str(text) == [type |-> "string", text |-> text]
Num(n) == [type |-> "number", num |-> n]
\* truthiness of a JavaScript value
Truthy(v) ==
    \/ v.type = "string" /\ v.text # << >>
    \/ v.type = "number" /\ v.num # 0
\* String(v), as the environment of a child process holds a value
ToText(v) ==
    IF v.type = "string" THEN v.text
    ELSE <<(<<"0", "1", "2", "3", "4", "5", "6", "7", "8", "9">>)[v.num + 1]>>

Unset == [kind |-> "unset"]
Malformed == [kind |-> "malformed"]
Json(o) == [kind |-> "json", obj |-> o]
\* throw new Error('No Kaggle token found. ...')
NoCreds == [ok |-> FALSE]

\* obj?.username && obj?.key of a parsed source
PairOf(src) ==
    IF /\ src.kind = "json"
       /\ Has(src.obj, "username") /\ Truthy(src.obj.username)
       /\ Has(src.obj, "key") /\ Truthy(src.obj.key)
    THEN [ok |-> TRUE, username |-> src.obj.username, key |-> src.obj.key]
    ELSE NoCreds

\* mutant: without a pair from any source an empty pair is returned
getKaggleCreds_EmptyPair(sec, e) ==
    IF PairOf(sec).ok THEN PairOf(sec)
    ELSE IF PairOf(e.KAGGLE_TOKEN_JSON).ok THEN PairOf(e.KAGGLE_TOKEN_JSON)
    ELSE [ok |-> TRUE, username |-> Str(e.KAGGLE_USERNAME), key |-> Str(e.KAGGLE_KEY)]

getKaggleCreds(sec, e) ==
    IF PairOf(sec).ok THEN PairOf(sec)
    ELSE IF PairOf(e.KAGGLE_TOKEN_JSON).ok THEN PairOf(e.KAGGLE_TOKEN_JSON)
    ELSE IF e.KAGGLE_USERNAME # << >> /\ e.KAGGLE_KEY # << >>
         THEN [ok |-> TRUE, username |-> Str(e.KAGGLE_USERNAME),
               key |-> Str(e.KAGGLE_KEY)]
    ELSE NoCreds

\* an execution of kaggle.signIn or kaggle.signOut that has not started
IdleAuth ==
    [cmd |-> "none", pc |-> "idle", doc |-> Unset, got |-> FALSE, stored |-> FALSE,
     errors |-> {}, infos |-> {}]

\* after activate: updateAuthContext has run once, no command is under way
\* and no handler of context.secrets.onDidChange is pending
Activated(sec, e) ==
    [isSignedIn |-> getKaggleCreds(sec, e).ok,
     run |-> [x \in Execs |-> IdleAuth],
     reading |-> 0, setTrue |-> 0, setFalse |-> 0]

(***************************************************************************)
(* State.                                                                  *)
(***************************************************************************)
VARIABLES
    ymlFile,       \* kaggle.yml as yaml.load reads it, or Absent
    metaFile,      \* kernel-metadata.json as JSON.parse reads it, or Absent
    runLog,        \* .kaggle-run.log: sequence of [ts, url]
    outDir,        \* modification times of the files in the output directory
    outSub,        \* its subdirectories, as trees (the fetches of the model make none)
    runsView,      \* the items RunsProvider.getChildren last returned
    csv,           \* a CSV listing the CLI printed, and what was parsed from it
    auth,          \* the kaggle.isSignedIn context and the sign-in and sign-out commands
    now,           \* Date.now()
    cfg,           \* the kaggle.* settings
    cliInstalled,  \* the kaggle binary answers the version probe
    platform,      \* process.platform: "win32", or "posix" for the others
    linked,        \* the kernels this project has pushed to or pulled by linkNotebook
    secrets,       \* context.secrets entry kaggle.api.token.json
    env,           \* process.env
    stubN,         \* the remote side: fetches leave outDir empty N times
    fetchCount,    \* "kernels output" processes that have exited so far
    triggers,      \* commands triggered so far
    ex             \* the command executions

vars == <<ymlFile, metaFile, runLog, outDir, now, cfg, cliInstalled, platform, auth, csv, outSub, runsView, linked, secrets,
          env, stubN, fetchCount, triggers, ex>>

\* fetch never delivers anything
Never == MaxN + 100

NoRes == [stdout |-> << >>, stderr |-> << >>]

\* no listing has been printed
NoCsv == [kind |-> "none", header |-> << >>, fields |-> << >>, line |-> << >>,
          parsed |-> FALSE, cols |-> << >>, items |-> << >>]

\* what the current call of runKaggleCLI has done so far
NoInv ==
    [probed |-> FALSE, probeOk |-> FALSE, resolved |-> FALSE, credsOk |-> FALSE,
     spawned |-> FALSE, fail |-> "none"]

IdleEx ==
    [cmd |-> "none", pc |-> "idle", arg |-> << >>, yml |-> EmptyObj,
     meta |-> EmptyObj, cliFor |-> "none", spawnedAt |-> 0, res |-> NoRes,
     url |-> NoUrl, kernelId |-> << >>, start |-> 0, wake |-> 0,
     report |-> << >>, errors |-> {}, modals |-> {}, infos |-> {},
     \* history of this execution, for the properties
     derived |-> FALSE, wrote |-> {}, pushCalls |-> 0, spawns |-> 0,
     pushOk |-> FALSE, pushFailed |-> FALSE, logBefore |-> << >>,
     logged |-> 0, polled |-> FALSE, attempts |-> << >>, attemptAt |-> 0,
     headLag |-> 0, offered |-> FALSE, prevAttach |-> "",
     endAt |-> 0, rejected |-> FALSE,
     \* the current call of runKaggleCLI: its arguments, what it resolved and
     \* what it handed to exec and to the output channel
     args |-> << >>, inv |-> NoInv, creds |-> NoCreds, cmdLine |-> << >>,
     echo |-> << >>, childEnv |-> EmptyObj,
     noCreds |-> FALSE, retried |-> FALSE]

(***************************************************************************)
(* initProject (scaffold).                                                 *)
(***************************************************************************)
UpperMap == ("M" :> "m") @@ ("R" :> "r") @@ ("O" :> "o")
\* String.prototype.toLowerCase, character by character
ToLower(t) == [i \in 1..Len(t) |-> IF t[i] \in DOMAIN UpperMap THEN UpperMap[t[i]] ELSE t[i]]
AlNum == Lower \cup Digits

\* replace(/[^a-z0-9]+/g, '-')
RECURSIVE Dashed(_)
Dashed(t) ==
    IF t = << >> THEN << >>
    ELSE LET front == Dashed(SubSeq(t, 1, Len(t) - 1))
             c == t[Len(t)]
         IN  IF c \in AlNum THEN Append(front, c)
             ELSE IF Len(t) >= 2 /\ t[Len(t) - 1] \notin AlNum THEN front
             ELSE Append(front, "-")

\* replace(/(^-|-$)/g, '')
Trimmed(t) ==
    LET a == IF t # << >> /\ t[1] = "-" THEN Tail(t) ELSE t
    IN  IF a # << >> /\ a[Len(a)] = "-" THEN SubSeq(a, 1, Len(a) - 1) ELSE a

\* `${username}/${title.toLowerCase()...}`
KernelIdOf(username, title) == username \o <<"/">> \o Trimmed(Dashed(ToLower(title)))

DotIpynb == <<".", "i", "p", "y", "n", "b">>
NotebookIpynb == <<"n", "o", "t", "e", "b", "o", "o", "k">> \o DotIpynb
MainPy == <<"m", "a", "i", "n", ".", "p", "y">>

\* the object written to kernel-metadata.json
InitMeta(username, title, codeFile, accel, internet) ==
    [id |-> KernelIdOf(username, title), title |-> title, code_file |-> codeFile,
     language |-> "python",
     kernel_type |-> IF EndsWith(codeFile, DotIpynb) THEN "notebook" ELSE "script",
     is_private |-> TRUE, enable_gpu |-> (accel = "gpu"),
     enable_internet |-> internet, dataset_sources |-> << >>,
     competition_sources |-> << >>]

\* the text written to kaggle.yml, as yaml.load reads it back
InitYml(username, title, codeFile, accel, internet) ==
    [project |-> Dashed(ToLower(title)), kernel_slug |-> KernelIdOf(username, title),
     code_file |-> codeFile, accelerator |-> accel, internet |-> internet,
     privacy |-> "private", datasets |-> << >>, competitions |-> << >>,
     outputs |-> [download_to |-> ".kaggle-outputs"]]

(***************************************************************************)
(* Inputs.                                                                 *)
(***************************************************************************)
Bob == <<"b", "o", "b">>
MyRun == <<"M", "y", " ", "R", "u", "n">>
OldRun == <<"O", "l", "d">>
EdaIpynb == <<"e", "d", "a">> \o DotIpynb

\* the setting kaggle.cliPath, at its default
CliPath == <<"k", "a", "g", "g", "l", "e">>
Kernels == <<"k", "e", "r", "n", "e", "l", "s">>
Push == <<"p", "u", "s", "h">>
Output == <<"o", "u", "t", "p", "u", "t">>
DashP == <<"-", "p">>
Dot == <<".">>
\* path.join(root, yml.outputs?.download_to || '.kaggle-outputs')
Dest == <<"/", "w", "/", ".", "k", "a", "g", "g", "l", "e", "-",
          "o", "u", "t", "p", "u", "t", "s">>
Pull == <<"p", "u", "l", "l">>
DashM == <<"-", "m">>
PushArgs == <<Kernels, Push, DashP, Dot>>
PullArgs(slug) == <<Kernels, Pull, DashM, slug>>
OutputArgs(kernelId) == <<Kernels, Output, kernelId, DashP, Dest>>

Commands ==
    {"pushRun", "runCurrentNotebook", "attachDataset", "downloadOutputs",
     "attachDatasetFromTree", "initProject", "linkNotebook"}
\* the commands of the second execution in Spec
CommandsOf(e) == IF e = "e1" THEN Commands ELSE {"attachDataset"}
\* the file of the active editor
ActivePaths == {EdaIpynb, MainPy}
\* what the user types into the dataset prompt ("" is a dismissed prompt)
DatasetInputs == {"alice/iris", ""}

\* the spec's scenario: accelerator gpu, internet on, one dataset
YmlGpu ==
    [InitYml(Bob, MyRun, NotebookIpynb, "gpu", TRUE) EXCEPT
        !.privacy = "public", !.datasets = <<"alice/iris">>]
YmlTpu == InitYml(Bob, MyRun, MainPy, "tpu", FALSE)
\* a hand-written kaggle.yml that has no kernel_slug yet
YmlNoSlug ==
    [k \in {"project", "code_file", "accelerator"} |->
        InitYml(Bob, MyRun, NotebookIpynb, "none", FALSE)[k]]

\* kernel-metadata.json left by initProject
MetaInit == InitMeta(Bob, MyRun, NotebookIpynb, "none", FALSE)
\* kernel-metadata.json pulled for another kernel (kaggle.linkNotebook)
MetaOld ==
    Put([InitMeta(Bob, OldRun, MainPy, "none", TRUE) EXCEPT
            !.is_private = FALSE, !.dataset_sources = <<"zed/old">>],
        "enable_tpu", FALSE)
\* a metadata file without an id
MetaNoId == [title |-> MyRun]

Workspaces ==
    {[yml |-> YmlGpu, meta |-> MetaInit], [yml |-> YmlTpu, meta |-> MetaInit],
     [yml |-> YmlTpu, meta |-> MetaOld], [yml |-> YmlNoSlug, meta |-> MetaNoId],
     [yml |-> YmlGpu, meta |-> Absent], [yml |-> Absent, meta |-> Absent]}

\* what "kernels push" prints
UrlRun == HttpText \o <<"s">> \o HostText \o
          <<"c", "o", "d", "e", "/", "b", "o", "b", "/", "m", "y", "-", "r", "u", "n">>
UrlPlain == HttpText \o HostText \o <<"x">>
OutViewed == <<"a", "t", " ">> \o UrlRun \o <<" ", "h", "e", "r", "e">>
OutTwo == UrlPlain \o <<".", " ">> \o UrlRun
OutNone == <<"o", "k", " ">> \o HttpText \o <<"s">> \o HostText \o <<" ">>
PushResults ==
    {[stdout |-> << >>, stderr |-> OutViewed],
     [stdout |-> OutTwo, stderr |-> <<"w">>],
     [stdout |-> OutNone, stderr |-> << >>]}

Key1 == <<"K", "1">>
StoredToken == Json([username |-> Str(Bob), key |-> Str(Key1)])
\* an environment variable that is not set reads as undefined: no text
NoEnv == [KAGGLE_TOKEN_JSON |-> Unset, KAGGLE_USERNAME |-> << >>, KAGGLE_KEY |-> << >>]
\* the machine: is the CLI installed, is the user signed in
Hosts ==
    {[cli |-> TRUE, secrets |-> StoredToken, platform |-> "posix"],
     [cli |-> FALSE, secrets |-> StoredToken, platform |-> "win32"],
     [cli |-> TRUE, secrets |-> Unset, platform |-> "win32"]}

Settings(auto, interval, timeout) ==
    [autoDownloadOnComplete |-> auto, pollIntervalSeconds |-> interval,
     pollTimeoutSeconds |-> timeout, defaultAccelerator |-> "none",
     defaultInternet |-> FALSE]

(***************************************************************************)
(* The extension after activation, in an open workspace folder.            *)
(***************************************************************************)
Init ==
    /\ \E w \in Workspaces : ymlFile = w.yml /\ metaFile = w.meta
    /\ runLog = << >>
    /\ outDir = {}
    /\ outSub = {}
    /\ runsView = << >>
    /\ csv = NoCsv
    /\ now = 0
    /\ \E auto \in BOOLEAN : cfg = Settings(auto, 1, 2)
    /\ \E h \in Hosts :
          cliInstalled = h.cli /\ secrets = h.secrets /\ platform = h.platform
    /\ linked = {}
    /\ env = NoEnv
    /\ stubN \in {0, 1}
    /\ fetchCount = 0
    /\ triggers = 0
    /\ ex = [e \in Execs |-> IdleEx]
    /\ auth = Activated(secrets, env)

(***************************************************************************)
(* Helpers of the actions.                                                 *)
(***************************************************************************)
Step(e, x) == ex' = [ex EXCEPT ![e] = x]

\* catch (e) { showError(e) } of a command: the error is shown, the command ends
showError(x, tag) == [x EXCEPT !.pc = "done", !.errors = @ \cup {tag}]

\* mutant: the sleep has no floor
SleepMs_NoFloor(intervalSeconds) == intervalSeconds * MsPerSecond

\* Math.max(1000, intervalSeconds * 1000)
SleepMs(intervalSeconds) ==
    IF intervalSeconds * MsPerSecond > MinSleepMs
    THEN intervalSeconds * MsPerSecond ELSE MinSleepMs

\* the execution is inside the while loop of pollAndDownload
InPollLoop(x) ==
    \/ x.pc \in {"poll_head", "poll_readdir", "poll_sleep"}
    \/ x.pc \in {"cli_check", "cli_creds", "cli_exec"} /\ x.cliFor = "output"

\* mutant: the catch block of the loop hands the error on
PollCatch_Rethrow(x, tag, dirNonEmpty) == showError(x, tag)

\* mutant: a failed fetch that left files behind counts as complete
PollCatch_Complete(x, tag, dirNonEmpty) ==
    IF dirNonEmpty
    THEN [x EXCEPT !.pc = "done", !.report = Append(@, "Complete"), !.endAt = now,
                   !.attempts = Append(@, [ok |-> FALSE, nonEmpty |-> dirNonEmpty])]
    ELSE [x EXCEPT !.pc = "poll_sleep",
                   !.wake = now + SleepMs(cfg.pollIntervalSeconds),
                   !.attempts = Append(@, [ok |-> FALSE, nonEmpty |-> dirNonEmpty])]

\* catch { /* Not ready yet; ignore */ } followed by the sleep
PollCatch(x, tag, dirNonEmpty) ==
    [x EXCEPT !.pc = "poll_sleep",
              !.wake = now + SleepMs(cfg.pollIntervalSeconds),
              !.attempts = Append(@, [ok |-> FALSE, nonEmpty |-> dirNonEmpty])]

\* a call runKaggleCLI(context, args, root)
CallCli(x, for, args) ==
    [x EXCEPT !.pc = "cli_check", !.cliFor = for, !.args = args, !.inv = NoInv,
              !.creds = NoCreds, !.cmdLine = << >>, !.echo = << >>,
              !.childEnv = EmptyObj, !.retried = x.noCreds]

\* the call runKaggleCLI(context, ['kernels', 'push', '-p', '.'], root)
CallPush(x) == CallCli([x EXCEPT !.pushCalls = @ + 1], "push", PushArgs)

\* mutant: a failed push is invoked a second time
Throw_Retry(x, tag, dirNonEmpty) ==
    IF x.cliFor = "output" THEN PollCatch(x, tag, dirNonEmpty)
    ELSE IF x.pushCalls < 2
         THEN CallPush([x EXCEPT !.pushFailed = TRUE])
    ELSE showError([x EXCEPT !.pushFailed = (x.cliFor = "push")], tag)

\* mutant: the catch block of a command drops the error
Throw_Swallow(x, tag, dirNonEmpty) ==
    IF x.cliFor = "output" THEN PollCatch(x, tag, dirNonEmpty)
    ELSE [x EXCEPT !.pc = "done", !.pushFailed = (x.cliFor = "push")]

\* a rejection of runKaggleCLI reaches the nearest enclosing catch
Throw(x, tag, dirNonEmpty) ==
    IF x.cliFor = "output" THEN PollCatch(x, tag, dirNonEmpty)
    ELSE showError([x EXCEPT !.pushFailed = (x.cliFor = "push")], tag)

\* runKaggleCLI has returned (only the push uses the result)
Return(x, res) ==
    IF x.cliFor = "output" THEN [x EXCEPT !.pc = "poll_readdir"]
    ELSE IF x.cliFor = "download"
         THEN [x EXCEPT !.pc = "done", !.infos = @ \cup {"Outputs downloaded"}]
    ELSE IF x.cliFor = "pull"
         THEN [x EXCEPT !.pc = "done", !.infos = @ \cup {"Linked"}]
    ELSE [x EXCEPT !.pc = IF x.cmd = "pushRun" THEN "pr_log" ELSE "rcn_log",
                   !.res = res, !.pushOk = TRUE]


(***************************************************************************)
(* The user triggers a command.                                            *)
(***************************************************************************)
\* the dataset the execution has attached, "" when it has attached none
Attached(x) ==
    IF x.cmd \in {"attachDataset", "attachDatasetFromTree"}
       /\ "Attached dataset" \in x.infos
    THEN x.arg ELSE ""

\* mutant: a submitting command is not started while another execution has
\* a push or a poll loop going
Trigger_Exclusive(e, cmd, arg) ==
    /\ ex[e].pc \in {"idle", "done"}
    /\ \A o \in Execs \ {e} : ex[o].pc \in {"idle", "done"}
    /\ triggers < MaxTriggers
    /\ triggers' = triggers + 1
    /\ Step(e, [IdleEx EXCEPT !.cmd = cmd, !.arg = arg, !.logBefore = runLog,
                              !.pc = IF cmd = "pushRun" THEN "pr_readYml" ELSE "rcn_stat"])
    /\ UNCHANGED <<ymlFile, metaFile, runLog, outDir, now, cfg, cliInstalled, platform, auth, csv, outSub, runsView, linked,
                   secrets, env, stubN, fetchCount>>

Trigger(e, cmd, arg) ==
    /\ ex[e].pc \in {"idle", "done"}
    /\ triggers < MaxTriggers
    /\ triggers' = triggers + 1
    /\ LET x == [IdleEx EXCEPT !.cmd = cmd, !.arg = arg, !.logBefore = runLog,
                               !.prevAttach = Attached(ex[e])]
       IN  CASE cmd = "pushRun" -> Step(e, [x EXCEPT !.pc = "pr_readYml"])
             [] cmd = "runCurrentNotebook" ->
                  IF EndsWith(arg, DotIpynb)
                  THEN Step(e, [x EXCEPT !.pc = "rcn_stat"])
                  ELSE Step(e, [x EXCEPT !.pc = "done", !.errors = {"NotANotebook"}])
             [] cmd = "attachDataset" ->
                  IF arg = "" THEN Step(e, [x EXCEPT !.pc = "done"])
                  ELSE Step(e, [x EXCEPT !.pc = "ad_readYml"])
             [] cmd = "downloadOutputs" -> Step(e, [x EXCEPT !.pc = "dl_readYml"])
             [] cmd = "attachDatasetFromTree" ->
                  IF arg = "" THEN Step(e, [x EXCEPT !.pc = "done"])
                  ELSE Step(e, [x EXCEPT !.pc = "adt_stat"])
             [] cmd = "initProject" -> Step(e, [x EXCEPT !.pc = "init_prompt"])
             [] cmd = "linkNotebook" ->
                  IF arg = << >> THEN Step(e, [x EXCEPT !.pc = "done"])
                  ELSE Step(e, CallCli(x, "pull", PullArgs(arg)))
    /\ UNCHANGED <<ymlFile, metaFile, runLog, outDir, now, cfg, cliInstalled, platform, auth, csv, outSub, runsView, linked,
                   secrets, env, stubN, fetchCount>>

(***************************************************************************)
(* runKaggleCLI.                                                           *)
(***************************************************************************)
\* mutant: after a failed probe the call goes on to the credentials
CliCheck_Continue(e) ==
    /\ ex[e].pc = "cli_check"
    /\ Step(e, [ex[e] EXCEPT !.pc = "cli_creds", !.inv.probed = TRUE,
                             !.inv.probeOk = cliInstalled,
                             !.modals = IF cliInstalled THEN @
                                        ELSE @ \cup {"CliUnavailable"}])
    /\ UNCHANGED <<ymlFile, metaFile, runLog, outDir, now, cfg, cliInstalled, platform, auth, csv, outSub, runsView, linked,
                   secrets, env, stubN, fetchCount, triggers>>

\* mutant: a probe that succeeded in an earlier call is not made again
CliCheck_Cached(e) ==
    /\ ex[e].pc = "cli_check"
    /\ LET x == ex[e]
       IN  IF cliInstalled \/ x.spawns > 0
           THEN Step(e, [x EXCEPT !.pc = "cli_creds", !.inv.probed = TRUE,
                                  !.inv.probeOk = TRUE])
           ELSE Step(e, Throw([x EXCEPT !.modals = @ \cup {"CliUnavailable"},
                                        !.inv.probed = TRUE,
                                        !.inv.fail = "CliUnavailable"],
                              "CliUnavailable", outDir # {}))
    /\ UNCHANGED <<ymlFile, metaFile, runLog, outDir, now, cfg, cliInstalled, platform, auth, csv, outSub, runsView, linked,
                   secrets, env, stubN, fetchCount, triggers>>

\* the version probe; without the binary the error is shown and thrown
CliCheck(e) ==
    /\ ex[e].pc = "cli_check"
    /\ LET x == ex[e]
       IN  IF cliInstalled
           THEN Step(e, [x EXCEPT !.pc = "cli_creds", !.inv.probed = TRUE,
                                  !.inv.probeOk = TRUE])
           ELSE Step(e, Throw([x EXCEPT !.modals = @ \cup {"CliUnavailable"},
                                        !.inv.probed = TRUE,
                                        !.inv.fail = "CliUnavailable"],
                              "CliUnavailable", outDir # {}))
    /\ UNCHANGED <<ymlFile, metaFile, runLog, outDir, now, cfg, cliInstalled, platform, auth, csv, outSub, runsView, linked,
                   secrets, env, stubN, fetchCount, triggers>>

\* { ...process.env, KAGGLE_USERNAME: creds.username, KAGGLE_KEY: creds.key }
ChildEnv(e, creds) ==
    [e EXCEPT !.KAGGLE_USERNAME = ToText(creds.username),
              !.KAGGLE_KEY = ToText(creds.key)]

\* mutant: the key is handed over as an argument
CliCreds_KeyAsArgument(e) ==
    /\ ex[e].pc = "cli_creds"
    /\ LET x == ex[e]
           creds == getKaggleCreds(secrets, env)
           args == x.args \o <<ToText(creds.key)>>
       IN  /\ creds.ok
           /\ Step(e, [x EXCEPT !.pc = "cli_exec", !.spawnedAt = now,
                                 !.spawns = @ + 1, !.creds = creds,
                                 !.inv.resolved = TRUE, !.inv.credsOk = TRUE,
                                 !.inv.spawned = TRUE,
                                 !.echo = Echo(CliPath, args),
                                 !.cmdLine = CommandLine(platform, CliPath, args),
                                 !.childEnv = env])
    /\ UNCHANGED <<ymlFile, metaFile, runLog, outDir, now, cfg, cliInstalled, platform, auth, csv, outSub, runsView, linked,
                   secrets, env, stubN, fetchCount, triggers>>

\* getKaggleCreds, the echo to the output channel and the spawn of the process
CliCreds(e) ==
    /\ ex[e].pc = "cli_creds"
    /\ LET x == ex[e]
           creds == getKaggleCreds(secrets, env)
       IN  IF creds.ok
           THEN Step(e, [x EXCEPT !.pc = "cli_exec", !.spawnedAt = now,
                                  !.spawns = @ + 1, !.creds = creds,
                                  !.inv.resolved = TRUE, !.inv.credsOk = TRUE,
                                  !.inv.spawned = TRUE,
                                  !.echo = Echo(CliPath, x.args),
                                  !.cmdLine = CommandLine(platform, CliPath, x.args),
                                  !.childEnv = ChildEnv(env, creds)])
           ELSE Step(e, Throw([x EXCEPT !.inv.resolved = TRUE, !.noCreds = TRUE,
                                        !.inv.fail = "NoCredentials"],
                              "NoCredentials", outDir # {}))
    /\ UNCHANGED <<ymlFile, metaFile, runLog, outDir, now, cfg, cliInstalled, platform, auth, csv, outSub, runsView, linked,
                   secrets, env, stubN, fetchCount, triggers>>

\* the id in kernel-metadata.json, under which "kernels push" submits
PushedId == IF metaFile # Absent /\ Has(metaFile, "id") THEN metaFile.id ELSE << >>

\* kernel-metadata.json as "kernels pull -m <slug>" writes it
Pulled(slug) == [MetaOld EXCEPT !.id = slug]

\* what a "kernels output" process that exits leaves in the output directory
Fetched(dir, count) == IF count > stubN THEN {now} ELSE dir

\* the process exits: with an error, or with code 0 and its output
CliExit(e) ==
    /\ ex[e].pc = "cli_exec"
    /\ LET x == ex[e]
       IN  IF x.cliFor \in {"output", "download"}
           THEN /\ fetchCount' = fetchCount + 1
                /\ outDir' = Fetched(outDir, fetchCount + 1)
                /\ UNCHANGED <<metaFile, linked>>
                /\ \/ Step(e, Return(x, NoRes))
                   \/ Step(e, Throw([x EXCEPT !.inv.fail = "CliError"],
                                     "CliError", outDir' # {}))
           ELSE IF x.cliFor = "pull"
           THEN /\ UNCHANGED <<fetchCount, outDir>>
                /\ \/ /\ metaFile' = Pulled(x.arg)
                      /\ linked' = linked \cup {x.arg}
                      /\ Step(e, Return(x, NoRes))
                   \/ /\ UNCHANGED <<metaFile, linked>>
                      /\ Step(e, Throw([x EXCEPT !.inv.fail = "CliError"],
                                        "CliError", outDir # {}))
           ELSE /\ UNCHANGED <<fetchCount, outDir, metaFile>>
                /\ \/ /\ linked' = linked \cup {PushedId}
                      /\ \E res \in PushResults : Step(e, Return(x, res))
                   \/ /\ UNCHANGED linked
                      /\ Step(e, Throw([x EXCEPT !.inv.fail = "CliError"],
                                        "CliError", outDir # {}))
    /\ UNCHANGED <<ymlFile, runLog, now, cfg, cliInstalled, platform, auth, csv, outSub, runsView, secrets,
                   env, stubN, triggers>>

(***************************************************************************)
(* logRun.                                                                 *)
(***************************************************************************)
logRun(log, url) == Append(log, [ts |-> now, url |-> url])

(***************************************************************************)
(* kaggle.pushRun.                                                         *)
(***************************************************************************)
PrReadYml(e) ==
    /\ ex[e].pc = "pr_readYml"
    /\ LET x == ex[e]
       IN  IF ymlFile = Absent THEN Step(e, showError(x, "ENOENT"))
           ELSE Step(e, [x EXCEPT !.pc = "pr_readMeta", !.yml = ymlFile])
    /\ UNCHANGED <<ymlFile, metaFile, runLog, outDir, now, cfg, cliInstalled, platform, auth, csv, outSub, runsView, linked,
                   secrets, env, stubN, fetchCount, triggers>>

\* readJson(metaPath) || {}
PrReadMeta(e) ==
    /\ ex[e].pc = "pr_readMeta"
    /\ Step(e, [ex[e] EXCEPT !.pc = "pr_writeMeta",
                             !.meta = IF metaFile = Absent THEN EmptyObj ELSE metaFile])
    /\ UNCHANGED <<ymlFile, metaFile, runLog, outDir, now, cfg, cliInstalled, platform, auth, csv, outSub, runsView, linked,
                   secrets, env, stubN, fetchCount, triggers>>

\* mutant: the push is invoked without the sync
PrWriteMeta_NoSync(e) ==
    /\ ex[e].pc = "pr_writeMeta"
    /\ Step(e, CallPush(ex[e]))
    /\ UNCHANGED <<ymlFile, metaFile, runLog, outDir, now, cfg, cliInstalled, platform, auth, csv, outSub, runsView, linked,
                   secrets, env, stubN, fetchCount, triggers>>

PrWriteMeta(e) ==
    /\ ex[e].pc = "pr_writeMeta"
    /\ LET x == ex[e]
           m == SyncMetaPush(x.yml, x.meta)
       IN  /\ metaFile' = m
           /\ Step(e, CallPush([x EXCEPT !.meta = m, !.derived = TRUE,
                                         !.wrote = @ \cup {"kernel-metadata.json"}]))
    /\ UNCHANGED <<ymlFile, runLog, outDir, now, cfg, cliInstalled, platform, auth, csv, outSub, runsView, linked, secrets,
                   env, stubN, fetchCount, triggers>>

\* mutant: a run is logged whether or not a URL was found
PrLogRun_AlwaysLog(e) ==
    /\ ex[e].pc = "pr_log"
    /\ runLog' = logRun(runLog, UrlMatch(ex[e].res.stdout))
    /\ Step(e, [ex[e] EXCEPT !.pc = "done", !.url = UrlMatch(ex[e].res.stdout),
                             !.logged = @ + 1])
    /\ UNCHANGED <<ymlFile, metaFile, outDir, now, cfg, cliInstalled, platform, auth, csv, outSub, runsView, linked, secrets,
                   env, stubN, fetchCount, triggers>>

\* the URL is looked for in res.stdout; a run is logged only when one is found
\* (the choice "Download Outputs" of the message runs kaggle.downloadOutputs,
\* which is the Trigger of that command)
PrLogRun(e) ==
    /\ ex[e].pc = "pr_log"
    /\ LET x == ex[e]
           url == UrlMatch(x.res.stdout)
       IN  IF url # NoUrl
           THEN /\ runLog' = logRun(runLog, url)
                /\ Step(e, [x EXCEPT !.pc = "done", !.url = url, !.logged = @ + 1,
                                     !.infos = @ \cup {"Kaggle run triggered."}])
           ELSE /\ UNCHANGED runLog
                /\ Step(e, [x EXCEPT !.pc = "done",
                                     !.infos = @ \cup {"Kaggle push finished."}])
    /\ UNCHANGED <<ymlFile, metaFile, outDir, now, cfg, cliInstalled, platform, auth, csv, outSub, runsView, linked, secrets,
                   env, stubN, fetchCount, triggers>>

(***************************************************************************)
(* kaggle.runCurrentNotebook, with the initProject it calls.               *)
(***************************************************************************)
\* both files are looked for; initProject runs when one is missing
RcnStat(e) ==
    /\ ex[e].pc = "rcn_stat"
    /\ LET missing == ymlFile = Absent \/ metaFile = Absent
       IN  Step(e, [ex[e] EXCEPT !.pc = IF missing THEN "init_prompt" ELSE "rcn_readYml",
                                 !.offered = missing])
    /\ UNCHANGED <<ymlFile, metaFile, runLog, outDir, now, cfg, cliInstalled, platform, auth, csv, outSub, runsView, linked,
                   secrets, env, stubN, fetchCount, triggers>>

\* where initProject returns to: the command itself ends, the callers go on
\* to read kaggle.yml
AfterInit(x) ==
    CASE x.cmd = "initProject" -> "done"
      [] x.cmd = "attachDatasetFromTree" -> "adt_readYml"
      [] OTHER -> "rcn_readYml"

\* the prompts of initProject; a dismissed prompt returns without writing
InitPrompt(e) ==
    /\ ex[e].pc = "init_prompt"
    /\ LET x == ex[e]
       IN  \/ Step(e, [x EXCEPT !.pc = AfterInit(x)])
           \/ \E codeFile \in {NotebookIpynb, MainPy} :
                Step(e, [x EXCEPT
                    !.pc = "init_writeMeta",
                    !.meta = InitMeta(Bob, MyRun, codeFile, cfg.defaultAccelerator,
                                      cfg.defaultInternet),
                    !.yml = InitYml(Bob, MyRun, codeFile, cfg.defaultAccelerator,
                                    cfg.defaultInternet)])
    /\ UNCHANGED <<ymlFile, metaFile, runLog, outDir, now, cfg, cliInstalled, platform, auth, csv, outSub, runsView, linked,
                   secrets, env, stubN, fetchCount, triggers>>

InitWriteMeta(e) ==
    /\ ex[e].pc = "init_writeMeta"
    /\ metaFile' = ex[e].meta
    /\ Step(e, [ex[e] EXCEPT !.pc = "init_writeYml"])
    /\ UNCHANGED <<ymlFile, runLog, outDir, now, cfg, cliInstalled, platform, auth, csv, outSub, runsView, linked, secrets,
                   env, stubN, fetchCount, triggers>>

InitWriteYml(e) ==
    /\ ex[e].pc = "init_writeYml"
    /\ ymlFile' = ex[e].yml
    /\ Step(e, [ex[e] EXCEPT !.pc = AfterInit(ex[e])])
    /\ UNCHANGED <<metaFile, runLog, outDir, now, cfg, cliInstalled, platform, auth, csv, outSub, runsView, linked, secrets,
                   env, stubN, fetchCount, triggers>>

\* outside the try block: a missing kaggle.yml rejects the command
RcnReadYml(e) ==
    /\ ex[e].pc = "rcn_readYml"
    /\ LET x == ex[e]
       IN  IF ymlFile = Absent
           THEN Step(e, [x EXCEPT !.pc = "done", !.rejected = TRUE])
           ELSE Step(e, [x EXCEPT !.pc = "rcn_readMeta", !.yml = ymlFile])
    /\ UNCHANGED <<ymlFile, metaFile, runLog, outDir, now, cfg, cliInstalled, platform, auth, csv, outSub, runsView, linked,
                   secrets, env, stubN, fetchCount, triggers>>

RcnReadMeta(e) ==
    /\ ex[e].pc = "rcn_readMeta"
    /\ Step(e, [ex[e] EXCEPT !.pc = "rcn_writeYml",
                             !.meta = IF metaFile = Absent THEN EmptyObj ELSE metaFile])
    /\ UNCHANGED <<ymlFile, metaFile, runLog, outDir, now, cfg, cliInstalled, platform, auth, csv, outSub, runsView, linked,
                   secrets, env, stubN, fetchCount, triggers>>

\* yml.accelerator || defaultAccelerator; yml.internet when it is a boolean
\* (with the shipped defaults neither quick pick is ever shown)
RunYml(yml, activePath) ==
    LET accel == IF TruthyStr(yml, "accelerator") THEN yml.accelerator
                 ELSE cfg.defaultAccelerator
        internet == IF Has(yml, "internet") THEN yml.internet
                    ELSE cfg.defaultInternet
    IN  Put(Put(Put(yml, "code_file", activePath), "accelerator", accel),
            "internet", internet)

RcnWriteYml(e) ==
    /\ ex[e].pc = "rcn_writeYml"
    /\ LET x == ex[e]
           y == RunYml(x.yml, x.arg)
       IN  /\ ymlFile' = y
           /\ Step(e, [x EXCEPT !.pc = "rcn_writeMeta", !.yml = y,
                                !.wrote = @ \cup {"kaggle.yml"}])
    /\ UNCHANGED <<metaFile, runLog, outDir, now, cfg, cliInstalled, platform, auth, csv, outSub, runsView, linked, secrets,
                   env, stubN, fetchCount, triggers>>

RcnWriteMeta(e) ==
    /\ ex[e].pc = "rcn_writeMeta"
    /\ LET x == ex[e]
           m == SyncMetaRun(x.yml, x.meta)
       IN  /\ metaFile' = m
           /\ Step(e, [x EXCEPT !.pc = "rcn_writeMeta2", !.meta = m,
                                !.derived = TRUE,
                                !.wrote = @ \cup {"kernel-metadata.json"}])
    /\ UNCHANGED <<ymlFile, runLog, outDir, now, cfg, cliInstalled, platform, auth, csv, outSub, runsView, linked, secrets,
                   env, stubN, fetchCount, triggers>>

\* the metadata is written a second time, then the push is invoked
RcnWriteMeta2(e) ==
    /\ ex[e].pc = "rcn_writeMeta2"
    /\ metaFile' = ex[e].meta
    /\ Step(e, CallPush(ex[e]))
    /\ UNCHANGED <<ymlFile, runLog, outDir, now, cfg, cliInstalled, platform, auth, csv, outSub, runsView, linked, secrets,
                   env, stubN, fetchCount, triggers>>

RcnLogRun(e) ==
    /\ ex[e].pc = "rcn_log"
    /\ LET x == ex[e]
           url == UrlMatch(x.res.stdout)
       IN  IF url # NoUrl
           THEN /\ runLog' = logRun(runLog, url)
                /\ Step(e, [x EXCEPT !.pc = "rcn_auto", !.url = url, !.logged = @ + 1])
           ELSE /\ UNCHANGED runLog
                /\ Step(e, [x EXCEPT !.pc = "rcn_auto"])
    /\ UNCHANGED <<ymlFile, metaFile, outDir, now, cfg, cliInstalled, platform, auth, csv, outSub, runsView, linked, secrets,
                   env, stubN, fetchCount, triggers>>

\* (meta.id as string) || yml.kernel_slug
KernelId(x) ==
    IF TruthyText(x.meta, "id") THEN x.meta.id
    ELSE IF TruthyText(x.yml, "kernel_slug") THEN x.yml.kernel_slug
    ELSE << >>

\* mutant: the autoDownloadOnComplete setting is not looked at
RcnAuto_IgnoreSetting(e) ==
    /\ ex[e].pc = "rcn_auto"
    /\ Step(e, [ex[e] EXCEPT !.pc = "poll_enter", !.kernelId = KernelId(ex[e])])
    /\ UNCHANGED <<ymlFile, metaFile, runLog, outDir, now, cfg, cliInstalled, platform, auth, csv, outSub, runsView, linked,
                   secrets, env, stubN, fetchCount, triggers>>

\* the poll loop is entered with auto download on and a job identifier
\* (without auto download the message offers "Download Outputs", as above)
RcnAuto(e) ==
    /\ ex[e].pc = "rcn_auto"
    /\ LET x == ex[e]
       IN  IF cfg.autoDownloadOnComplete
           THEN IF KernelId(x) # << >>
                THEN Step(e, [x EXCEPT !.pc = "poll_enter", !.kernelId = KernelId(x)])
                ELSE Step(e, [x EXCEPT !.pc = "done"])
           ELSE Step(e, [x EXCEPT !.pc = "done",
                                  !.infos = @ \cup {"Kaggle run triggered."}])
    /\ UNCHANGED <<ymlFile, metaFile, runLog, outDir, now, cfg, cliInstalled, platform, auth, csv, outSub, runsView, linked,
                   secrets, env, stubN, fetchCount, triggers>>

(***************************************************************************)
(* pollAndDownload.                                                        *)
(***************************************************************************)
\* kaggle.yml is read for the output directory, the directory is made and
\* the start time is taken
PollEnter(e) ==
    /\ ex[e].pc = "poll_enter"
    /\ LET x == ex[e]
       IN  IF ymlFile = Absent THEN Step(e, showError(x, "ENOENT"))
           ELSE Step(e, [x EXCEPT !.pc = "poll_head", !.start = now, !.polled = TRUE])
    /\ UNCHANGED <<ymlFile, metaFile, runLog, outDir, now, cfg, cliInstalled, platform, auth, csv, outSub, runsView, linked,
                   secrets, env, stubN, fetchCount, triggers>>

\* mutant: the loop goes on when the timeout has just been reached
TimeLeft_Inclusive(x) == now - x.start <= cfg.pollTimeoutSeconds * MsPerSecond

\* while (Date.now() - start < timeoutSeconds * 1000)
TimeLeft(x) == now - x.start < cfg.pollTimeoutSeconds * MsPerSecond

\* how late the loop is: time since start beyond the sleeps it has taken
Lag(x) == (now - x.start) - Len(x.attempts) * SleepMs(cfg.pollIntervalSeconds)

PollHead(e) ==
    /\ ex[e].pc = "poll_head"
    /\ LET x == [ex[e] EXCEPT !.headLag = Lag(ex[e])]
       IN  IF TimeLeft(x)
           THEN Step(e, CallCli([x EXCEPT !.attemptAt = now], "output",
                                OutputArgs(x.kernelId)))
           ELSE Step(e, [x EXCEPT !.pc = "done", !.report = Append(@, "TimedOut"),
                                  !.endAt = now])
    /\ UNCHANGED <<ymlFile, metaFile, runLog, outDir, now, cfg, cliInstalled, platform, auth, csv, outSub, runsView, linked,
                   secrets, env, stubN, fetchCount, triggers>>

\* mutant: the directory is read but the loop sleeps on whatever it holds
PollReaddir_NoReturn(e) ==
    /\ ex[e].pc = "poll_readdir"
    /\ Step(e, [ex[e] EXCEPT
                    !.attempts = Append(@, [ok |-> TRUE, nonEmpty |-> outDir # {}]),
                    !.pc = "poll_sleep",
                    !.wake = now + SleepMs(cfg.pollIntervalSeconds)])
    /\ UNCHANGED <<ymlFile, metaFile, runLog, outDir, now, cfg, cliInstalled, platform, auth, csv, outSub, runsView, linked,
                   secrets, env, stubN, fetchCount, triggers>>

\* mutant: a fetch that succeeded counts as complete, the directory unseen
PollReaddir_NoLook(e) ==
    /\ ex[e].pc = "poll_readdir"
    /\ Step(e, [ex[e] EXCEPT
                    !.attempts = Append(@, [ok |-> TRUE, nonEmpty |-> outDir # {}]),
                    !.pc = "done", !.report = Append(@, "Complete"),
                    !.endAt = now])
    /\ UNCHANGED <<ymlFile, metaFile, runLog, outDir, now, cfg, cliInstalled, platform, auth, csv, outSub, runsView, linked,
                   secrets, env, stubN, fetchCount, triggers>>

\* fs.promises.readdir(dest) after a fetch that succeeded
PollReaddir(e) ==
    /\ ex[e].pc = "poll_readdir"
    /\ LET x == [ex[e] EXCEPT
                    !.attempts = Append(@, [ok |-> TRUE, nonEmpty |-> outDir # {}])]
       IN  IF outDir # {}
           THEN Step(e, [x EXCEPT !.pc = "done", !.report = Append(@, "Complete"),
                                  !.endAt = now])
           ELSE Step(e, [x EXCEPT !.pc = "poll_sleep",
                                  !.wake = now + SleepMs(cfg.pollIntervalSeconds)])
    /\ UNCHANGED <<ymlFile, metaFile, runLog, outDir, now, cfg, cliInstalled, platform, auth, csv, outSub, runsView, linked,
                   secrets, env, stubN, fetchCount, triggers>>

\* mutant: the loop goes on without waiting for the timer
PollWake_Early(e) ==
    /\ ex[e].pc = "poll_sleep"
    /\ Step(e, [ex[e] EXCEPT !.pc = "poll_head"])
    /\ UNCHANGED <<ymlFile, metaFile, runLog, outDir, now, cfg, cliInstalled, platform, auth, csv, outSub, runsView, linked,
                   secrets, env, stubN, fetchCount, triggers>>

\* the timer of the sleep fires
PollWake(e) ==
    /\ ex[e].pc = "poll_sleep"
    /\ now >= ex[e].wake
    /\ Step(e, [ex[e] EXCEPT !.pc = "poll_head"])
    /\ UNCHANGED <<ymlFile, metaFile, runLog, outDir, now, cfg, cliInstalled, platform, auth, csv, outSub, runsView, linked,
                   secrets, env, stubN, fetchCount, triggers>>

(***************************************************************************)
(* kaggle.attachDataset.                                                   *)
(***************************************************************************)
AdReadYml(e) ==
    /\ ex[e].pc = "ad_readYml"
    /\ LET x == ex[e]
       IN  IF ymlFile = Absent THEN Step(e, showError(x, "ENOENT"))
           ELSE Step(e, [x EXCEPT !.pc = "ad_writeYml", !.yml = ymlFile])
    /\ UNCHANGED <<ymlFile, metaFile, runLog, outDir, now, cfg, cliInstalled, platform, auth, csv, outSub, runsView, linked,
                   secrets, env, stubN, fetchCount, triggers>>

\* mutant: the dataset is appended to the list as it is
Attach_Append(yml, ds) ==
    Put(yml, "datasets",
        Append(IF Has(yml, "datasets") THEN yml.datasets ELSE << >>, ds))

\* yml.datasets = Array.from(new Set([...(yml.datasets || []), ds]))
Attach(yml, ds) ==
    Put(yml, "datasets",
        Dedupe(Append(IF Has(yml, "datasets") THEN yml.datasets ELSE << >>, ds)))

AdWriteYml(e) ==
    /\ ex[e].pc = "ad_writeYml"
    /\ LET x == ex[e]
           y == Attach(x.yml, x.arg)
       IN  /\ ymlFile' = y
           /\ Step(e, [x EXCEPT !.pc = "done", !.yml = y,
                                !.infos = @ \cup {"Attached dataset"}])
    /\ UNCHANGED <<metaFile, runLog, outDir, now, cfg, cliInstalled, platform, auth, csv, outSub, runsView, linked, secrets,
                   env, stubN, fetchCount, triggers>>

(***************************************************************************)
(* kaggle.attachDatasetFromTree.                                           *)
(***************************************************************************)
\* stat of kaggle.yml; when it is missing the user is asked
\* 'kaggle.yml not found. Initialize Kaggle project?' and anything but Yes
\* ends the command
AdtStat(e) ==
    /\ ex[e].pc = "adt_stat"
    /\ LET x == ex[e]
       IN  IF ymlFile # Absent THEN Step(e, [x EXCEPT !.pc = "adt_readYml"])
           ELSE \E create \in {"Yes", "No"} :
                   Step(e, [x EXCEPT !.offered = TRUE,
                                     !.pc = IF create = "Yes" THEN "init_prompt"
                                            ELSE "done"])
    /\ UNCHANGED <<ymlFile, metaFile, runLog, outDir, now, cfg, cliInstalled, platform, auth, csv, outSub, runsView, linked,
                   secrets, env, stubN, fetchCount, triggers>>

AdtReadYml(e) ==
    /\ ex[e].pc = "adt_readYml"
    /\ LET x == ex[e]
       IN  IF ymlFile = Absent THEN Step(e, showError(x, "ENOENT"))
           ELSE Step(e, [x EXCEPT !.pc = "adt_writeYml", !.yml = ymlFile])
    /\ UNCHANGED <<ymlFile, metaFile, runLog, outDir, now, cfg, cliInstalled, platform, auth, csv, outSub, runsView, linked,
                   secrets, env, stubN, fetchCount, triggers>>

AdtWriteYml(e) ==
    /\ ex[e].pc = "adt_writeYml"
    /\ LET x == ex[e]
           y == Attach(x.yml, x.arg)
       IN  /\ ymlFile' = y
           /\ Step(e, [x EXCEPT !.pc = "done", !.yml = y,
                                !.infos = @ \cup {"Attached dataset"}])
    /\ UNCHANGED <<metaFile, runLog, outDir, now, cfg, cliInstalled, platform, auth, csv, outSub, runsView, linked, secrets,
                   env, stubN, fetchCount, triggers>>

(***************************************************************************)
(* kaggle.downloadOutputs.                                                 *)
(***************************************************************************)
DlReadYml(e) ==
    /\ ex[e].pc = "dl_readYml"
    /\ LET x == ex[e]
       IN  IF ymlFile = Absent THEN Step(e, showError(x, "ENOENT"))
           ELSE Step(e, [x EXCEPT !.pc = "dl_readMeta", !.yml = ymlFile])
    /\ UNCHANGED <<ymlFile, metaFile, runLog, outDir, now, cfg, cliInstalled, platform, auth, csv, outSub, runsView, linked,
                   secrets, env, stubN, fetchCount, triggers>>

\* runKaggleCLI(context, ['kernels', 'output', meta?.id || '', '-p', dest])
DlReadMeta(e) ==
    /\ ex[e].pc = "dl_readMeta"
    /\ LET m == IF metaFile = Absent THEN EmptyObj ELSE metaFile
           id == IF TruthyText(m, "id") THEN m.id ELSE << >>
       IN  Step(e, CallCli([ex[e] EXCEPT !.meta = m, !.kernelId = id],
                           "download", OutputArgs(id)))
    /\ UNCHANGED <<ymlFile, metaFile, runLog, outDir, now, cfg, cliInstalled, platform, auth, csv, outSub, runsView, linked,
                   secrets, env, stubN, fetchCount, triggers>>

(***************************************************************************)
(* The clock.  It is read by the poll loop (and by logRun for the time     *)
(* stamp): time passes while a fetch process of a poll loop runs and while *)
(* a poll loop sleeps; the other steps take no measurable time.  A fetch   *)
(* process exits within MaxFetchMs.                                        *)
(***************************************************************************)
MaxNow == (MaxN + 2) * MsPerSecond * 3 + MaxFetchMs

Tick ==
    /\ now < MaxNow
    /\ \A e \in Execs : ex[e].pc = "cli_exec" => now - ex[e].spawnedAt < MaxFetchMs
    /\ \E e \in Execs :
          \/ ex[e].pc = "cli_exec" /\ ex[e].cliFor = "output"
          \/ ex[e].pc = "poll_sleep" /\ now < ex[e].wake
    /\ now' = now + TickMs
    /\ UNCHANGED <<ymlFile, metaFile, runLog, outDir, cfg, cliInstalled, platform, auth, csv, outSub, runsView, linked, secrets,
                   env, stubN, fetchCount, triggers, ex>>

(***************************************************************************)
(* The specification.                                                      *)
(***************************************************************************)
Next ==
    \/ \E e \in Execs : "pushRun" \in CommandsOf(e) /\ Trigger(e, "pushRun", << >>)
    \/ \E e \in Execs : \E a \in ActivePaths :
          "runCurrentNotebook" \in CommandsOf(e) /\ Trigger(e, "runCurrentNotebook", a)
    \/ \E e \in Execs : \E ds \in DatasetInputs :
          "attachDataset" \in CommandsOf(e) /\ Trigger(e, "attachDataset", ds)
    \/ \E e \in Execs : "downloadOutputs" \in CommandsOf(e) /\ Trigger(e, "downloadOutputs", << >>)
    \/ \E e \in Execs : CliCheck(e)
    \/ \E e \in Execs : CliCreds(e)
    \/ \E e \in Execs : CliExit(e)
    \/ \E e \in Execs : PrReadYml(e)
    \/ \E e \in Execs : PrReadMeta(e)
    \/ \E e \in Execs : PrWriteMeta(e)
    \/ \E e \in Execs : PrLogRun(e)
    \/ \E e \in Execs : RcnStat(e)
    \/ \E e \in Execs : InitPrompt(e)
    \/ \E e \in Execs : InitWriteMeta(e)
    \/ \E e \in Execs : InitWriteYml(e)
    \/ \E e \in Execs : RcnReadYml(e)
    \/ \E e \in Execs : RcnReadMeta(e)
    \/ \E e \in Execs : RcnWriteYml(e)
    \/ \E e \in Execs : RcnWriteMeta(e)
    \/ \E e \in Execs : RcnWriteMeta2(e)
    \/ \E e \in Execs : RcnLogRun(e)
    \/ \E e \in Execs : RcnAuto(e)
    \/ \E e \in Execs : PollEnter(e)
    \/ \E e \in Execs : PollHead(e)
    \/ \E e \in Execs : PollReaddir(e)
    \/ \E e \in Execs : PollWake(e)
    \/ \E e \in Execs : AdReadYml(e)
    \/ \E e \in Execs : AdWriteYml(e)
    \/ \E e \in Execs : DlReadYml(e)
    \/ \E e \in Execs : DlReadMeta(e)
    \/ Tick

Spec == Init /\ [][Next]_vars

TypeOK ==
    /\ now \in 0..MaxNow
    /\ triggers \in 0..MaxTriggers
    /\ \A e \in Execs : Len(ex[e].report) <= 1

(***************************************************************************)
(* The poll loop on its own: kaggle.runCurrentNotebook has pushed          *)
(* successfully and calls pollAndDownload; the settings, the machine and   *)
(* the remote side are drawn from the bounded sets.                        *)
(***************************************************************************)
Intervals == 0..2
Timeouts == 0..(MaxN + 2)
StubNs == (0..MaxN) \cup {Never}

\* the execution of kaggle.runCurrentNotebook at the call of pollAndDownload
AtPoll(res, plat) ==
    LET y == RunYml(YmlGpu, EdaIpynb)
        m == SyncMetaRun(y, MetaInit)
        creds == getKaggleCreds(StoredToken, NoEnv)
    IN  [IdleEx EXCEPT !.cmd = "runCurrentNotebook", !.arg = EdaIpynb,
                       !.pc = "poll_enter", !.yml = y, !.meta = m,
                       !.cliFor = "push", !.res = res, !.url = UrlMatch(res.stdout),
                       !.kernelId = m.id, !.derived = TRUE,
                       !.wrote = {"kaggle.yml", "kernel-metadata.json"},
                       !.pushCalls = 1, !.spawns = 1, !.pushOk = TRUE, !.logged = 1,
                       !.args = PushArgs, !.creds = creds,
                       !.inv = [NoInv EXCEPT !.probed = TRUE, !.probeOk = TRUE,
                                             !.resolved = TRUE, !.credsOk = TRUE,
                                             !.spawned = TRUE],
                       !.echo = Echo(CliPath, PushArgs),
                       !.cmdLine = CommandLine(plat, CliPath, PushArgs),
                       !.childEnv = ChildEnv(NoEnv, creds)]

InitPoll ==
    /\ \E h \in Hosts :
          cliInstalled = h.cli /\ secrets = h.secrets /\ platform = h.platform
    /\ \E res \in {r \in PushResults : r.stdout = OutTwo} :
          /\ ex = [e \in Execs |-> IF e = "e1" THEN AtPoll(res, platform) ELSE IdleEx]
          /\ runLog = <<[ts |-> 0, url |-> UrlMatch(res.stdout)]>>
    /\ ymlFile = ex["e1"].yml
    /\ metaFile = ex["e1"].meta
    /\ linked = {ex["e1"].meta.id}
    /\ outDir = {}
    /\ outSub = {}
    /\ runsView = << >>
    /\ csv = NoCsv
    /\ now = 0
    /\ \E i \in Intervals, t \in Timeouts : cfg = Settings(TRUE, i, t)
    /\ env = NoEnv
    /\ stubN \in StubNs
    /\ fetchCount = 0
    /\ triggers = 1
    /\ auth = Activated(secrets, env)

\* a step of the loop: everything but the clock
PollStep ==
    \/ \E e \in Execs : PollEnter(e)
    \/ \E e \in Execs : PollHead(e)
    \/ \E e \in Execs : CliCheck(e)
    \/ \E e \in Execs : CliCreds(e)
    \/ \E e \in Execs : CliExit(e)
    \/ \E e \in Execs : PollReaddir(e)
    \/ \E e \in Execs : PollWake(e)

NextPoll == PollStep \/ Tick

PollSpec == InitPoll /\ [][NextPoll]_vars

\* the event loop runs every continuation that is ready, every CLI process
\* exits, every timer fires, and time goes on
FairPollSpec == PollSpec /\ WF_vars(PollStep) /\ WF_vars(Tick)

(***************************************************************************)
(* getKaggleCreds on its own: a call of runKaggleCLI whose version probe   *)
(* has succeeded resolves the credentials; the three sources are drawn     *)
(* from the bounded sets.                                                  *)
(***************************************************************************)
Amy == <<"a", "m", "y">>
Eve == <<"e", "v", "e">>
Key2 == <<"K", "2">>
Key3 == <<"K", "3">>

\* what a property of a stored document can be: a non-empty string, the
\* empty string, or a number
FieldValues(text) == {Str(text), Str(<< >>), Num(0), Num(7)}

\* the documents a source can hold: no text, text that does not parse, and
\* objects with or without either property
Documents(username, key) ==
    {Unset, Malformed, Json(EmptyObj)}
    \cup {Json([username |-> u]) : u \in FieldValues(username)}
    \cup {Json([key |-> k]) : k \in FieldValues(key)}
    \cup {Json([username |-> u, key |-> k]) :
             u \in FieldValues(username), k \in FieldValues(key)}

\* the execution of kaggle.pushRun at the call of getKaggleCreds
AtCreds ==
    LET m == SyncMetaPush(YmlGpu, MetaInit)
        x == CallPush([IdleEx EXCEPT !.cmd = "pushRun", !.yml = YmlGpu, !.meta = m,
                                     !.derived = TRUE,
                                     !.wrote = {"kernel-metadata.json"}])
    IN  [x EXCEPT !.pc = "cli_creds", !.inv.probed = TRUE, !.inv.probeOk = TRUE]

InitCreds ==
    /\ ymlFile = YmlGpu
    /\ metaFile = SyncMetaPush(YmlGpu, MetaInit)
    /\ runLog = << >>
    /\ outDir = {}
    /\ outSub = {}
    /\ runsView = << >>
    /\ csv = NoCsv
    /\ now = 0
    /\ cfg = Settings(FALSE, 1, 2)
    /\ cliInstalled = TRUE
    /\ platform = "posix"
    /\ linked = {}
    /\ secrets \in Documents(Bob, Key1)
    /\ \E doc \in Documents(Amy, Key2), u \in {<< >>, Eve}, k \in {<< >>, Key3} :
          env = [KAGGLE_TOKEN_JSON |-> doc, KAGGLE_USERNAME |-> u, KAGGLE_KEY |-> k]
    /\ stubN = 0
    /\ fetchCount = 0
    /\ triggers = 1
    /\ ex = [e \in Execs |-> IF e = "e1" THEN AtCreds ELSE IdleEx]
    /\ auth = Activated(secrets, env)

NextCreds == \E e \in Execs : CliCreds(e)

CredsSpec == InitCreds /\ [][NextCreds]_vars

(***************************************************************************)
(* The commands on a machine that changes under them: the binary is        *)
(* installed or removed, the user signs in and out.                        *)
(***************************************************************************)
\* the kaggle binary is installed or removed
CliChange ==
    /\ cliInstalled' = ~cliInstalled
    /\ UNCHANGED <<ymlFile, metaFile, runLog, outDir, now, cfg, platform, auth, csv, outSub, runsView, linked, secrets,
                   env, stubN, fetchCount, triggers, ex>>

\* kaggle.signOut: clearStoredToken
SignOut ==
    /\ secrets' = Unset
    /\ auth' = [auth EXCEPT !.isSignedIn = getKaggleCreds(secrets', env).ok]
    /\ UNCHANGED <<ymlFile, metaFile, runLog, outDir, now, cfg, cliInstalled, platform, csv, outSub, runsView, linked,
                   env, stubN, fetchCount, triggers, ex>>

\* kaggle.signIn: the token of KAGGLE_TOKEN_JSON when it holds a pair, else
\* the username and key typed into the prompts (a dismissed prompt throws)
SignIn(username, key) ==
    /\ secrets' = IF PairOf(env.KAGGLE_TOKEN_JSON).ok THEN env.KAGGLE_TOKEN_JSON
                  ELSE IF username # << >> /\ key # << >>
                       THEN Json([username |-> Str(username), key |-> Str(key)])
                  ELSE secrets
    /\ auth' = [auth EXCEPT !.isSignedIn = getKaggleCreds(secrets', env).ok]
    /\ UNCHANGED <<ymlFile, metaFile, runLog, outDir, now, cfg, cliInstalled, platform, csv, outSub, runsView, linked,
                   env, stubN, fetchCount, triggers, ex>>

\* an inherited environment that holds a key of its own but no username
KeyOnlyEnv == [NoEnv EXCEPT !.KAGGLE_KEY = Key3]

InitCli ==
    /\ ymlFile = YmlGpu
    /\ metaFile = MetaInit
    /\ runLog = << >>
    /\ outDir = {}
    /\ outSub = {}
    /\ runsView = << >>
    /\ csv = NoCsv
    /\ now = 0
    /\ cfg = Settings(TRUE, 1, 2)
    /\ cliInstalled = TRUE
    /\ platform = "win32"
    /\ linked = {}
    /\ secrets = StoredToken
    /\ env = KeyOnlyEnv
    /\ stubN = 1
    /\ fetchCount = 0
    /\ triggers = 0
    /\ ex = [e \in Execs |-> IdleEx]
    /\ auth = Activated(secrets, env)

\* kaggle.runCurrentNotebook and kaggle.downloadOutputs in an initialized
\* project: a push, the fetches of the poll loop and a single fetch
NextCli ==
    \/ Trigger("e1", "runCurrentNotebook", EdaIpynb)
    \/ Trigger("e1", "downloadOutputs", << >>)
    \/ \E e \in Execs : CliCheck(e)
    \/ \E e \in Execs : CliCreds(e)
    \/ \E e \in Execs : CliExit(e)
    \/ \E e \in Execs : RcnStat(e)
    \/ \E e \in Execs : RcnReadYml(e)
    \/ \E e \in Execs : RcnReadMeta(e)
    \/ \E e \in Execs : RcnWriteYml(e)
    \/ \E e \in Execs : RcnWriteMeta(e)
    \/ \E e \in Execs : RcnWriteMeta2(e)
    \/ \E e \in Execs : RcnLogRun(e)
    \/ \E e \in Execs : RcnAuto(e)
    \/ \E e \in Execs : PollEnter(e)
    \/ \E e \in Execs : PollHead(e)
    \/ \E e \in Execs : PollReaddir(e)
    \/ \E e \in Execs : PollWake(e)
    \/ \E e \in Execs : DlReadYml(e)
    \/ \E e \in Execs : DlReadMeta(e)
    \/ Tick
    \/ CliChange
    \/ SignOut
    \/ \E u \in {<< >>, Bob} : SignIn(u, Key1)

CliSpec == InitCli /\ [][NextCli]_vars

(***************************************************************************)
(* The project files under the commands that read and write them, one      *)
(* command after the other: a folder that was never initialized, or a      *)
(* project that initProject set up and that has been pushed once.          *)
(***************************************************************************)
\* the datasets list of a kaggle.yml the user may have edited by hand
DatasetLists ==
    {<< >>, <<"alice/iris">>, <<"zed/old", "alice/iris">>,
     <<"alice/iris", "zed/old", "alice/iris">>}

\* kaggle.yml of the project "Old" with a datasets list, and without one
YmlOld(list) == [InitYml(Bob, OldRun, NotebookIpynb, "none", FALSE) EXCEPT !.datasets = list]
YmlOldBare ==
    [k \in {"project", "kernel_slug", "code_file"} |->
        InitYml(Bob, OldRun, NotebookIpynb, "none", FALSE)[k]]

ProjectYmls == {YmlOld(list) : list \in DatasetLists} \cup {YmlOldBare}

\* the slugs typed into the prompt of kaggle.linkNotebook (<< >>: dismissed)
LinkInputs == {<< >>, KernelIdOf(Bob, MyRun)}
\* the dataset of the tree item of kaggle.attachDatasetFromTree
TreeItems == {"alice/iris", "zed/old"}

InitFolder ==
    /\ \/ /\ ymlFile = Absent /\ metaFile = Absent
          /\ linked = {}
       \/ /\ ymlFile \in ProjectYmls
          /\ metaFile = SyncMetaPush(ymlFile,
                            InitMeta(Bob, OldRun, NotebookIpynb, "none", FALSE))
          /\ linked = {metaFile.id}
    /\ runLog = << >>
    /\ outDir = {}
    /\ outSub = {}
    /\ runsView = << >>
    /\ csv = NoCsv
    /\ now = 0
    /\ cfg = Settings(FALSE, 1, 2)
    /\ cliInstalled = TRUE
    /\ platform = "posix"
    /\ secrets = StoredToken
    /\ env = NoEnv
    /\ stubN = 0
    /\ fetchCount = 0
    /\ triggers = 0
    /\ ex = [e \in Execs |-> IdleEx]
    /\ auth = Activated(secrets, env)

NextProject ==
    \/ Trigger("e1", "pushRun", << >>)
    \/ Trigger("e1", "runCurrentNotebook", EdaIpynb)
    \/ Trigger("e1", "downloadOutputs", << >>)
    \/ Trigger("e1", "initProject", << >>)
    \/ \E ds \in DatasetInputs : Trigger("e1", "attachDataset", ds)
    \/ \E ds \in TreeItems : Trigger("e1", "attachDatasetFromTree", ds)
    \/ \E slug \in LinkInputs : Trigger("e1", "linkNotebook", slug)
    \/ \E e \in Execs : CliCheck(e)
    \/ \E e \in Execs : CliCreds(e)
    \/ \E e \in Execs : CliExit(e)
    \/ \E e \in Execs : PrReadYml(e)
    \/ \E e \in Execs : PrReadMeta(e)
    \/ \E e \in Execs : PrWriteMeta(e)
    \/ \E e \in Execs : PrLogRun(e)
    \/ \E e \in Execs : RcnStat(e)
    \/ \E e \in Execs : InitPrompt(e)
    \/ \E e \in Execs : InitWriteMeta(e)
    \/ \E e \in Execs : InitWriteYml(e)
    \/ \E e \in Execs : RcnReadYml(e)
    \/ \E e \in Execs : RcnReadMeta(e)
    \/ \E e \in Execs : RcnWriteYml(e)
    \/ \E e \in Execs : RcnWriteMeta(e)
    \/ \E e \in Execs : RcnWriteMeta2(e)
    \/ \E e \in Execs : RcnLogRun(e)
    \/ \E e \in Execs : RcnAuto(e)
    \/ \E e \in Execs : AdReadYml(e)
    \/ \E e \in Execs : AdWriteYml(e)
    \/ \E e \in Execs : AdtStat(e)
    \/ \E e \in Execs : AdtReadYml(e)
    \/ \E e \in Execs : AdtWriteYml(e)
    \/ \E e \in Execs : DlReadYml(e)
    \/ \E e \in Execs : DlReadMeta(e)

ProjectSpec == InitFolder /\ [][NextProject]_vars

(***************************************************************************)
(* The command line of kaggle.linkNotebook: the slug is whatever the user  *)
(* typed, on either platform; the call has passed its version probe.       *)
(***************************************************************************)
ArgChars == {"a", SP, SQ, DQ, BS}

RECURSIVE Texts(_)
\* the texts of up to n characters
Texts(n) ==
    IF n = 0 THEN {<< >>}
    ELSE LET shorter == Texts(n - 1)
         IN  shorter \cup {Append(t, c) : t \in shorter, c \in ArgChars}

\* kaggle.linkNotebook at getKaggleCreds of its call
AtLink(slug) ==
    LET x == CallCli([IdleEx EXCEPT !.cmd = "linkNotebook", !.arg = slug],
                     "pull", PullArgs(slug))
    IN  [x EXCEPT !.pc = "cli_creds", !.inv.probed = TRUE, !.inv.probeOk = TRUE]

InitEscape ==
    /\ ymlFile = YmlGpu
    /\ metaFile = MetaInit
    /\ runLog = << >>
    /\ outDir = {}
    /\ outSub = {}
    /\ runsView = << >>
    /\ csv = NoCsv
    /\ now = 0
    /\ cfg = Settings(FALSE, 1, 2)
    /\ cliInstalled = TRUE
    /\ platform \in {"win32", "posix"}
    /\ linked = {}
    /\ secrets = StoredToken
    /\ env = NoEnv
    /\ stubN = 0
    /\ fetchCount = 0
    /\ triggers = 1
    /\ \E slug \in Texts(MaxArgLen) \ {<< >>} :
          ex = [e \in Execs |-> IF e = "e1" THEN AtLink(slug) ELSE IdleEx]
    /\ auth = Activated(secrets, env)

NextEscape ==
    \/ \E e \in Execs : CliCreds(e)
    \/ \E e \in Execs : CliExit(e)

EscapeSpec == InitEscape /\ [][NextEscape]_vars

(***************************************************************************)
(* A submitting command triggered twice for the same project: both         *)
(* executions run kaggle.runCurrentNotebook, up to the end of their push.  *)
(***************************************************************************)
InitTwice ==
    /\ ymlFile = YmlGpu
    /\ metaFile = SyncMetaPush(YmlGpu, MetaInit)
    /\ runLog = << >>
    /\ outDir = {}
    /\ outSub = {}
    /\ runsView = << >>
    /\ csv = NoCsv
    /\ now = 0
    /\ cfg = Settings(FALSE, 1, 1)
    /\ cliInstalled = TRUE
    /\ platform = "posix"
    /\ linked = {}
    /\ secrets = StoredToken
    /\ env = NoEnv
    /\ stubN = 0
    /\ fetchCount = 0
    /\ triggers = 0
    /\ ex = [e \in Execs |-> IdleEx]
    /\ auth = Activated(secrets, env)

NextTwice ==
    \/ \E e \in Execs : Trigger(e, "runCurrentNotebook", EdaIpynb)
    \/ \E e \in Execs : CliCheck(e)
    \/ \E e \in Execs : CliCreds(e)
    \/ \E e \in Execs : CliExit(e)
    \/ \E e \in Execs : RcnStat(e)
    \/ \E e \in Execs : RcnReadYml(e)
    \/ \E e \in Execs : RcnReadMeta(e)
    \/ \E e \in Execs : RcnWriteYml(e)
    \/ \E e \in Execs : RcnWriteMeta(e)
    \/ \E e \in Execs : RcnWriteMeta2(e)
    \/ \E e \in Execs : RcnLogRun(e)
    \/ \E e \in Execs : RcnAuto(e)

TwiceSpec == InitTwice /\ [][NextTwice]_vars

(***************************************************************************)
(* The attach commands triggered while another attach is running.          *)
(***************************************************************************)
InitAttach ==
    /\ ymlFile \in ProjectYmls
    /\ metaFile = SyncMetaPush(ymlFile, InitMeta(Bob, OldRun, NotebookIpynb, "none", FALSE))
    /\ runLog = << >>
    /\ outDir = {}
    /\ outSub = {}
    /\ runsView = << >>
    /\ csv = NoCsv
    /\ now = 0
    /\ cfg = Settings(FALSE, 1, 2)
    /\ cliInstalled = TRUE
    /\ platform = "posix"
    /\ linked = {}
    /\ secrets = StoredToken
    /\ env = NoEnv
    /\ stubN = 0
    /\ fetchCount = 0
    /\ triggers = 0
    /\ ex = [e \in Execs |-> IdleEx]
    /\ auth = Activated(secrets, env)

NextAttach ==
    \/ \E e \in Execs : \E ds \in DatasetInputs : Trigger(e, "attachDataset", ds)
    \/ \E e \in Execs : \E ds \in TreeItems : Trigger(e, "attachDatasetFromTree", ds)
    \/ \E e \in Execs : AdReadYml(e)
    \/ \E e \in Execs : AdWriteYml(e)
    \/ \E e \in Execs : AdtStat(e)
    \/ \E e \in Execs : AdtReadYml(e)
    \/ \E e \in Execs : AdtWriteYml(e)

AttachSpec == InitAttach /\ [][NextAttach]_vars

(***************************************************************************)
(* The runs view: RunsProvider.getChildren over the run log, kaggle.yml    *)
(* and the output directory.                                               *)
(***************************************************************************)
\* slice(-50)
MaxShown == 50
LastLines(log) ==
    IF Len(log) <= MaxShown THEN log
    ELSE SubSeq(log, Len(log) - MaxShown + 1, Len(log))

RECURSIVE hasAnyRecentFile(_, _)
\* a directory is [files, dirs]: the modification times of its files and its
\* subdirectories; readdir of a missing directory throws, which is caught
hasAnyRecentFile(dir, sinceMs) ==
    IF dir = Absent THEN FALSE
    ELSE \/ \E mtimeMs \in dir.files : mtimeMs >= sinceMs
         \/ \E d \in dir.dirs : hasAnyRecentFile(d, sinceMs)

DefaultOut == ".kaggle-outputs"

\* the directory at a path under the workspace folder: .kaggle-outputs is
\* the only one there is
DirAt(p) == IF p = DefaultOut THEN [files |-> outDir, dirs |-> outSub] ELSE Absent

\* mutant: the view looks into .kaggle-outputs whatever kaggle.yml says
OutPathOf_Default(yml) == DefaultOut

\* yml.outputs?.download_to || '.kaggle-outputs', {} for a missing kaggle.yml
OutPathOf(yml) ==
    IF yml # Absent /\ Has(yml, "outputs") /\ TruthyStr(yml.outputs, "download_to")
    THEN yml.outputs.download_to ELSE DefaultOut

\* the label of an item is the time stamp logRun wrote (toISOString), which
\* new Date(label).getTime() reads back to the millisecond
getChildren ==
    IF runLog = << >> THEN << >>
    ELSE LET lines == LastLines(runLog)
             n == Len(lines)
             has == hasAnyRecentFile(DirAt(OutPathOf(ymlFile)), lines[n].ts)
         IN  [i \in 1..n |->
                [label |-> lines[i].ts, url |-> lines[i].url, isLatest |-> i = n,
                 status |-> IF i < n THEN "none"
                            ELSE IF has THEN "complete" ELSE "pending"]]

\* the view is refreshed
GetChildren ==
    /\ runsView' = getChildren
    /\ UNCHANGED <<ymlFile, metaFile, runLog, outDir, outSub, now, cfg, cliInstalled,
                   platform, auth, csv, linked, secrets, env, stubN, fetchCount, triggers, ex>>

FileSets == {{}, {1000}, {2000}, {3000}, {1000, 3000}}

RECURSIVE Trees(_)
\* the directories nested up to n deep, one subdirectory at most in each
Trees(n) ==
    IF n = 0 THEN {[files |-> f, dirs |-> {}] : f \in FileSets}
    ELSE Trees(n - 1) \cup {[files |-> f, dirs |-> {d}] : f \in FileSets, d \in Trees(n - 1)}

Run(ts) == [ts |-> ts, url |-> UrlRun]
RunLogs == {<< >>, <<Run(2000)>>, <<Run(1000), Run(2000)>>, <<Run(1000), Run(3000)>>}

\* kaggle.yml that sends the outputs to a directory that does not exist
YmlElsewhere == [YmlGpu EXCEPT !.outputs = [download_to |-> "out"]]

InitRuns ==
    /\ ymlFile \in {Absent, YmlGpu, YmlNoSlug, YmlElsewhere}
    /\ metaFile = MetaInit
    /\ runLog \in RunLogs
    /\ outDir \in FileSets
    /\ outSub \in {{}} \cup {{d} : d \in Trees(MaxDepth - 1)}
    /\ runsView = << >>
    /\ csv = NoCsv
    /\ now = 4000
    /\ cfg = Settings(FALSE, 1, 2)
    /\ cliInstalled = TRUE
    /\ platform = "posix"
    /\ linked = {}
    /\ secrets = StoredToken
    /\ env = NoEnv
    /\ stubN = 0
    /\ fetchCount = 0
    /\ triggers = 0
    /\ ex = [e \in Execs |-> IdleEx]
    /\ auth = Activated(secrets, env)

NextRuns == GetChildren

RunsSpec == InitRuns /\ [][NextRuns]_vars

(***************************************************************************)
(* CSV output of the CLI: one header line and one row, as "kernels list    *)
(* --csv" and "datasets files --csv" print them, and the two ways the      *)
(* extension reads them.                                                   *)
(***************************************************************************)
Comma == ","

\* a field as a CSV writer prints it: quoted, with its quotes doubled, when
\* it holds a comma or a quote
CsvField(t) ==
    IF \E i \in DOMAIN t : t[i] \in {Comma, DQ}
    THEN <<DQ>> \o DoubleQuotes(t) \o <<DQ>> ELSE t

RECURSIVE CsvLine(_)
CsvLine(fields) ==
    IF fields = << >> THEN << >>
    ELSE IF Len(fields) = 1 THEN CsvField(fields[1])
    ELSE CsvField(fields[1]) \o <<Comma>> \o CsvLine(Tail(fields))

\* s.replace(/^\"|\"$/g, '')
StripQuotes(t) ==
    LET a == IF t # << >> /\ t[1] = DQ THEN Tail(t) ELSE t
    IN  IF a # << >> /\ a[Len(a)] = DQ THEN SubSeq(a, 1, Len(a) - 1) ELSE a

RECURSIVE SplitFrom(_, _, _, _, _)
\* the loop of splitCsv from position i
SplitFrom(line, i, cur, inQ, out) ==
    IF i > Len(line) THEN Append(out, cur)
    ELSE IF line[i] = DQ
         THEN IF inQ /\ i + 1 <= Len(line) /\ line[i + 1] = DQ
              THEN SplitFrom(line, i + 2, Append(cur, DQ), inQ, out)
              ELSE SplitFrom(line, i + 1, cur, ~inQ, out)
    ELSE IF line[i] = Comma /\ ~inQ
         THEN SplitFrom(line, i + 1, << >>, inQ, Append(out, cur))
    ELSE SplitFrom(line, i + 1, Append(cur, line[i]), inQ, out)

splitCsv(line) ==
    LET out == SplitFrom(line, 1, << >>, FALSE, << >>)
    IN  [k \in DOMAIN out |-> StripQuotes(out[k])]

RECURSIVE SplitComma(_, _, _, _)
\* line.split(',')
SplitComma(line, i, cur, out) ==
    IF i > Len(line) THEN Append(out, cur)
    ELSE IF line[i] = Comma THEN SplitComma(line, i + 1, << >>, Append(out, cur))
    ELSE SplitComma(line, i + 1, Append(cur, line[i]), out)

\* headers.indexOf(name), counted from 1; 0 when the column is not there
IndexOf(headers, name) ==
    IF \E k \in DOMAIN headers : headers[k] = name
    THEN CHOOSE k \in DOMAIN headers :
            headers[k] = name /\ \A j \in 1..(k - 1) : headers[j] # name
    ELSE 0

\* cols[idx] || ''
ColAt(cols, idx) == IF idx \in DOMAIN cols THEN cols[idx] ELSE << >>

CodeUrl(ref) == HttpText \o <<"s">> \o HostText \o <<"c", "o", "d", "e", "/">> \o ref

\* parseKernelsCsv, for one row under the header
parseKernelsCsv(headers, line) ==
    LET refIdx == IndexOf(headers, "ref")
        ref == ColAt(splitCsv(line), refIdx)
    IN  IF refIdx = 0 \/ ref = << >> THEN << >>
        ELSE <<[ref |-> ref, url |-> CodeUrl(ref)]>>

\* the quick pick entries of kaggle.datasetBrowseFiles, for one row
browseFiles(headers, line) ==
    LET cols == SplitComma(line, 1, << >>, << >>)
        name == ColAt(cols, IndexOf(headers, "name"))
        size == ColAt(cols, IndexOf(headers, "size"))
    IN  <<[label |-> name, description |-> size, name |-> name]>>

\* MyNotebooksProvider.getChildren reads the listing
ParseKernels ==
    /\ csv.kind = "kernels" /\ ~csv.parsed
    /\ csv' = [csv EXCEPT !.parsed = TRUE, !.cols = splitCsv(csv.line),
                          !.items = parseKernelsCsv(csv.header, csv.line)]
    /\ UNCHANGED <<ymlFile, metaFile, runLog, outDir, outSub, runsView, now, cfg,
                   cliInstalled, platform, auth, linked, secrets, env, stubN, fetchCount,
                   triggers, ex>>

\* kaggle.datasetBrowseFiles reads the listing
BrowseFiles ==
    /\ csv.kind = "files" /\ ~csv.parsed
    /\ csv' = [csv EXCEPT !.parsed = TRUE, !.cols = SplitComma(csv.line, 1, << >>, << >>),
                          !.items = browseFiles(csv.header, csv.line)]
    /\ UNCHANGED <<ymlFile, metaFile, runLog, outDir, outSub, runsView, now, cfg,
                   cliInstalled, platform, auth, linked, secrets, env, stubN, fetchCount,
                   triggers, ex>>

CsvChars == {"a", Comma, DQ}

RECURSIVE FieldTexts(_)
\* the field values of up to n characters
FieldTexts(n) ==
    IF n = 0 THEN {<< >>}
    ELSE LET shorter == FieldTexts(n - 1)
         IN  shorter \cup {Append(t, c) : t \in shorter, c \in CsvChars}

\* the listings: the wanted column first or second
Listings ==
    {[kind |-> "kernels", header |-> h] : h \in {<<"ref", "title">>, <<"title", "ref">>}}
    \cup {[kind |-> "files", header |-> h] : h \in {<<"name", "size">>, <<"size", "name">>}}

InitCsv ==
    /\ ymlFile = YmlGpu
    /\ metaFile = MetaInit
    /\ runLog = << >>
    /\ outDir = {}
    /\ outSub = {}
    /\ runsView = << >>
    /\ \E l \in Listings :
       \E f1 \in FieldTexts(MaxFieldLen) \ {<< >>}, f2 \in FieldTexts(MaxFieldLen) \ {<< >>} :
          csv = [NoCsv EXCEPT !.kind = l.kind, !.header = l.header,
                              !.fields = <<f1, f2>>, !.line = CsvLine(<<f1, f2>>)]
    /\ now = 0
    /\ cfg = Settings(FALSE, 1, 2)
    /\ cliInstalled = TRUE
    /\ platform = "posix"
    /\ linked = {}
    /\ secrets = StoredToken
    /\ env = NoEnv
    /\ stubN = 0
    /\ fetchCount = 0
    /\ triggers = 0
    /\ ex = [e \in Execs |-> IdleEx]
    /\ auth = Activated(secrets, env)

NextCsv == ParseKernels \/ BrowseFiles

CsvSpec == InitCsv /\ [][NextCsv]_vars

(***************************************************************************)
(* kaggle.signIn, kaggle.signOut and the handler of                        *)
(* context.secrets.onDidChange.  Each await of a command or a handler is   *)
(* a step of its own: the secret store is written, it is read, the context *)
(* is set.  Nothing in the code orders the steps of one execution against  *)
(* those of another.                                                       *)
(***************************************************************************)
AuthStep(e, x) == [auth EXCEPT !.run[e] = x]

\* the secret store changed: the handler of onDidChange starts
Changed(a) == [a EXCEPT !.reading = @ + 1]

\* the command kaggle.signIn is run: storeApiTokenFromEnvOrPrompt up to its
\* call of context.secrets.store; username and key are what the user types
\* into the prompts, empty when a prompt is dismissed
SignInStart(e, username, key) ==
    /\ auth.run[e].pc \in {"idle", "done"}
    /\ triggers < MaxTriggers
    /\ triggers' = triggers + 1
    /\ LET x == [IdleAuth EXCEPT !.cmd = "signIn"]
       IN  auth' =
             IF PairOf(env.KAGGLE_TOKEN_JSON).ok
             THEN AuthStep(e, [x EXCEPT !.pc = "si_store", !.doc = env.KAGGLE_TOKEN_JSON])
             ELSE IF username = << >> \/ key = << >>
                  THEN AuthStep(e, [x EXCEPT !.pc = "done",
                                             !.errors = {"Sign in canceled."}])
             ELSE AuthStep(e, [x EXCEPT !.pc = "si_store",
                                        !.doc = Json([username |-> Str(username),
                                                      key |-> Str(key)])])
    /\ UNCHANGED <<ymlFile, metaFile, runLog, outDir, outSub, runsView, csv, now, cfg,
                   cliInstalled, platform, linked, secrets, env, stubN, fetchCount, ex>>

\* await context.secrets.store(SECRET_KEY, ...), then the message
StoreToken(e) ==
    /\ auth.run[e].pc = "si_store"
    /\ secrets' = auth.run[e].doc
    /\ auth' = Changed(AuthStep(e, [auth.run[e] EXCEPT
                                       !.pc = "ua_read", !.stored = TRUE,
                                       !.infos = @ \cup {"Kaggle token stored."}]))
    /\ UNCHANGED <<ymlFile, metaFile, runLog, outDir, outSub, runsView, csv, now, cfg,
                   cliInstalled, platform, linked, env, stubN, fetchCount, triggers, ex>>

\* the command kaggle.signOut is run
SignOutStart(e) ==
    /\ auth.run[e].pc \in {"idle", "done"}
    /\ triggers < MaxTriggers
    /\ triggers' = triggers + 1
    /\ auth' = AuthStep(e, [IdleAuth EXCEPT !.cmd = "signOut", !.pc = "so_delete"])
    /\ UNCHANGED <<ymlFile, metaFile, runLog, outDir, outSub, runsView, csv, now, cfg,
                   cliInstalled, platform, linked, secrets, env, stubN, fetchCount, ex>>

\* mutant: sign-out empties the stored document but leaves the entry
clearStoredToken_KeepEntry(e) ==
    /\ auth.run[e].pc = "so_delete"
    /\ secrets' = Json(EmptyObj)
    /\ auth' = Changed(AuthStep(e, [auth.run[e] EXCEPT !.pc = "ua_read"]))
    /\ UNCHANGED <<ymlFile, metaFile, runLog, outDir, outSub, runsView, csv, now, cfg,
                   cliInstalled, platform, linked, env, stubN, fetchCount, triggers, ex>>

\* await context.secrets.delete(SECRET_KEY)
clearStoredToken(e) ==
    /\ auth.run[e].pc = "so_delete"
    /\ secrets' = Unset
    /\ auth' = Changed(AuthStep(e, [auth.run[e] EXCEPT !.pc = "ua_read"]))
    /\ UNCHANGED <<ymlFile, metaFile, runLog, outDir, outSub, runsView, csv, now, cfg,
                   cliInstalled, platform, linked, env, stubN, fetchCount, triggers, ex>>

\* updateAuthContext of a command: await getKaggleCreds(context)
UpdateAuthRead(e) ==
    /\ auth.run[e].pc = "ua_read"
    /\ auth' = AuthStep(e, [auth.run[e] EXCEPT
                               !.pc = "ua_set", !.got = getKaggleCreds(secrets, env).ok])
    /\ UNCHANGED <<ymlFile, metaFile, runLog, outDir, outSub, runsView, csv, now, cfg,
                   cliInstalled, platform, linked, secrets, env, stubN, fetchCount,
                   triggers, ex>>

\* updateAuthContext of a command: await executeCommand('setContext', ...);
\* kaggle.signOut then shows its message
UpdateAuthSet(e) ==
    /\ auth.run[e].pc = "ua_set"
    /\ auth' = [AuthStep(e, [auth.run[e] EXCEPT
                                !.pc = "done",
                                !.infos = IF auth.run[e].cmd = "signOut"
                                          THEN @ \cup {"Signed out of Kaggle."} ELSE @])
                EXCEPT !.isSignedIn = auth.run[e].got]
    /\ UNCHANGED <<ymlFile, metaFile, runLog, outDir, outSub, runsView, csv, now, cfg,
                   cliInstalled, platform, linked, secrets, env, stubN, fetchCount,
                   triggers, ex>>

\* updateAuthContext of a handler of onDidChange: await getKaggleCreds(context)
OnDidChangeRead ==
    /\ auth.reading > 0
    /\ auth' = IF getKaggleCreds(secrets, env).ok
               THEN [auth EXCEPT !.reading = @ - 1, !.setTrue = @ + 1]
               ELSE [auth EXCEPT !.reading = @ - 1, !.setFalse = @ + 1]
    /\ UNCHANGED <<ymlFile, metaFile, runLog, outDir, outSub, runsView, csv, now, cfg,
                   cliInstalled, platform, linked, secrets, env, stubN, fetchCount,
                   triggers, ex>>

\* updateAuthContext of a handler of onDidChange: the context is set
OnDidChangeSet(v) ==
    /\ IF v THEN auth.setTrue > 0 ELSE auth.setFalse > 0
    /\ auth' = IF v THEN [auth EXCEPT !.setTrue = @ - 1, !.isSignedIn = TRUE]
               ELSE [auth EXCEPT !.setFalse = @ - 1, !.isSignedIn = FALSE]
    /\ UNCHANGED <<ymlFile, metaFile, runLog, outDir, outSub, runsView, csv, now, cfg,
                   cliInstalled, platform, linked, secrets, env, stubN, fetchCount,
                   triggers, ex>>

\* the environments of the extension host: no source, a token document, a
\* key without a username
AuthEnvs ==
    {NoEnv, [NoEnv EXCEPT !.KAGGLE_TOKEN_JSON =
                              Json([username |-> Str(Amy), key |-> Str(Key2)])],
     [NoEnv EXCEPT !.KAGGLE_USERNAME = Eve, !.KAGGLE_KEY = Key3]}

InitAuth ==
    /\ ymlFile = YmlGpu
    /\ metaFile = MetaInit
    /\ runLog = << >>
    /\ outDir = {}
    /\ outSub = {}
    /\ runsView = << >>
    /\ csv = NoCsv
    /\ now = 0
    /\ cfg = Settings(FALSE, 1, 2)
    /\ cliInstalled = TRUE
    /\ platform = "posix"
    /\ linked = {}
    /\ secrets \in {Unset, StoredToken}
    /\ env \in AuthEnvs
    /\ stubN = 0
    /\ fetchCount = 0
    /\ triggers = 0
    /\ ex = [e \in Execs |-> IdleEx]
    /\ auth = Activated(secrets, env)

NextAuth ==
    \/ \E e \in Execs : \E u \in {<< >>, Bob}, k \in {<< >>, Key1} : SignInStart(e, u, k)
    \/ \E e \in Execs : StoreToken(e)
    \/ \E e \in Execs : SignOutStart(e)
    \/ \E e \in Execs : clearStoredToken(e)
    \/ \E e \in Execs : UpdateAuthRead(e)
    \/ \E e \in Execs : UpdateAuthSet(e)
    \/ OnDidChangeRead
    \/ \E v \in BOOLEAN : OnDidChangeSet(v)

AuthSpec == InitAuth /\ [][NextAuth]_vars

(***************************************************************************)
(* Properties.                                                             *)
(***************************************************************************)
\* the push of execution e has been invoked
PushInvoked(e) == ex[e].pushCalls > 0
\* the "kernels push" process of execution e is running
Pushing(e) == ex[e].pc = "cli_exec" /\ ex[e].cliFor = "push"
\* the metadata the execution holds is what the sync makes of its kaggle.yml
Derived(e) ==
    /\ ex[e].derived
    /\ ex[e].meta = IF ex[e].cmd = "pushRun"
                    THEN SyncMetaPush(ex[e].yml, ex[e].meta)
                    ELSE SyncMetaRun(ex[e].yml, ex[e].meta)

\* C1 as stated: whenever a submitting command has invoked the push, it has
\* before, in the same execution, re-derived the metadata from kaggle.yml and
\* written both kaggle.yml and kernel-metadata.json.
C1_PushAfterBothPersisted ==
    \A e \in Execs : PushInvoked(e) =>
        /\ Derived(e)
        /\ ex[e].wrote = {"kaggle.yml", "kernel-metadata.json"}

\* C1 amended: whenever a submitting command has invoked the push, it has
\* before, in the same execution, re-derived the metadata from the kaggle.yml
\* it read and written kernel-metadata.json; kaggle.runCurrentNotebook has
\* written kaggle.yml as well, kaggle.pushRun does not write kaggle.yml.
C1_PushAfterSync ==
    \A e \in Execs : PushInvoked(e) =>
        /\ Derived(e)
        /\ "kernel-metadata.json" \in ex[e].wrote
        /\ ("kaggle.yml" \in ex[e].wrote) = (ex[e].cmd = "runCurrentNotebook")

\* C1 witness: the push process of a kaggle.pushRun execution is running
C1_Witness == \E e \in Execs : Pushing(e) /\ ex[e].cmd = "pushRun"

\* a boolean property of the metadata, a missing key read as false
Flag(m, k) == Has(m, k) /\ m[k]

\* kernel-metadata.json m is the projection of kaggle.yml y
IsProjection(y, m) ==
    /\ TruthyText(y, "kernel_slug") => Has(m, "id") /\ m.id = y.kernel_slug
    /\ TruthyText(y, "code_file") => Has(m, "code_file") /\ m.code_file = y.code_file
    /\ Flag(m, "is_private") = (~Has(y, "privacy") \/ y.privacy = "private")
    /\ Flag(m, "enable_gpu") = (Has(y, "accelerator") /\ y.accelerator = "gpu")
    /\ Flag(m, "enable_tpu") = (Has(y, "accelerator") /\ y.accelerator = "tpu")
    /\ Flag(m, "enable_internet") = Flag(y, "internet")
    /\ Has(y, "datasets") => Has(m, "dataset_sources") /\ m.dataset_sources = y.datasets
    /\ Has(y, "competitions") =>
          Has(m, "competition_sources") /\ m.competition_sources = y.competitions

\* C2 as stated: while the push process of a submitting command runs,
\* kernel-metadata.json on disk is the projection of kaggle.yml on disk, for
\* every accelerator, whatever the metadata held before, also with an attach
\* command interleaved.
C2_MetaIsProjectionAtPush ==
    \A e \in Execs : Pushing(e) =>
        /\ ymlFile # Absent
        /\ metaFile # Absent
        /\ IsProjection(ymlFile, metaFile)


\* the execution has called pollAndDownload
InPoll(e) == ex[e].pc = "poll_enter" \/ ex[e].polled \/ InPollLoop(ex[e])

\* C6: an execution is in pollAndDownload only if it is a
\* kaggle.runCurrentNotebook (never a kaggle.pushRun) whose one push has
\* succeeded, autoDownloadOnComplete is on, and the job identifier it polls
\* for is non-empty and is the metadata id or, without one, the kernel_slug.
C6_PollOnlyWhenEnabled ==
    \A e \in Execs : InPoll(e) =>
        /\ ex[e].cmd = "runCurrentNotebook"
        /\ ex[e].pushOk /\ ~ex[e].pushFailed /\ ex[e].pushCalls = 1
        /\ cfg.autoDownloadOnComplete
        /\ ex[e].kernelId # << >>
        /\ ex[e].kernelId = KernelId(ex[e])

\* C6 witness: a poll loop has begun
C6_Witness == \E e \in Execs : ex[e].polled /\ InPollLoop(ex[e])

\* C7: once the push of a submitting command has failed, the command has
\* ended with the error shown, the push was invoked exactly once, the
\* execution has appended nothing to the run log and has not polled.
C7_PushFailureSurfaced ==
    \A e \in Execs : ex[e].pushFailed =>
        /\ ex[e].pc = "done"
        /\ ex[e].errors # {}
        /\ ex[e].pushCalls = 1
        /\ ex[e].logged = 0
        /\ ~InPoll(e)
        /\ ~ex[e].pushOk

\* C7 witness: a push process was spawned and exited with an error
C7_Witness ==
    \E e \in Execs : ex[e].pushFailed /\ ex[e].spawns = 1 /\ "CliError" \in ex[e].errors

\* the output of the push as the test suite scans it: stdout + stderr
Combined(res) == res.stdout \o res.stderr
\* the push of e has succeeded and the log step after it has run
AfterLogStep(e) == ex[e].pushOk /\ ex[e].pc \notin {"pr_log", "rcn_log"}

\* C8 as stated: after a successful push whose combined output (stdout and
\* stderr) holds a URL of the service, the execution has appended exactly one
\* record, whose url is the first match in the combined output, and the
\* records logged before are unchanged.
C8_LogsFirstUrlOfOutput ==
    \A e \in Execs :
        AfterLogStep(e) /\ UrlMatch(Combined(ex[e].res)) # NoUrl =>
            /\ ex[e].logged = 1
            /\ Len(runLog) = Len(ex[e].logBefore) + 1
            /\ SubSeq(runLog, 1, Len(ex[e].logBefore)) = ex[e].logBefore
            /\ runLog[Len(runLog)].url = UrlMatch(Combined(ex[e].res))

\* C9: after a successful push whose output holds no URL of the service the
\* execution has shown no error, was not rejected and has appended nothing:
\* the run log is what it was when the command was triggered.
C9_NoUrlIsNoError ==
    \A e \in Execs :
        AfterLogStep(e) /\ UrlMatch(Combined(ex[e].res)) = NoUrl =>
            /\ ex[e].errors = {}
            /\ ~ex[e].rejected
            /\ ex[e].logged = 0
            /\ runLog = ex[e].logBefore

\* C9 witness: a push without a URL has been handled, by a command that ended
C9_Witness ==
    \E e \in Execs :
        /\ AfterLogStep(e) /\ UrlMatch(Combined(ex[e].res)) = NoUrl
        /\ ex[e].pc = "done"


(***************************************************************************)
(* Properties of the poll loop.                                            *)
(***************************************************************************)
TimeoutMs == cfg.pollTimeoutSeconds * MsPerSecond
Last(q) == q[Len(q)]

\* C3 as stated: after every attempt, failed or not, a non-empty directory
\* ends the loop with Complete: an attempt that left the directory non-empty
\* is the last one and Complete is reported.
C3_CheckedAfterEveryAttempt ==
    \A e \in Execs : \A i \in 1..Len(ex[e].attempts) :
        ex[e].attempts[i].nonEmpty =>
            i = Len(ex[e].attempts) /\ ex[e].report = <<"Complete">>

\* C3 amended: the directory is checked after each fetch attempt that
\* succeeded (a failed attempt goes to the sleep without the check): an
\* attempt that succeeded and left the directory non-empty is the last one,
\* with Complete reported and the loop ended; and Complete is reported only
\* after such an attempt.
C3_CompleteAtFirstNonEmptySuccess ==
    \A e \in Execs :
        /\ \A i \in 1..Len(ex[e].attempts) :
              ex[e].attempts[i].ok /\ ex[e].attempts[i].nonEmpty =>
                  /\ i = Len(ex[e].attempts)
                  /\ ex[e].report = <<"Complete">>
                  /\ ex[e].pc = "done"
        /\ ex[e].report = <<"Complete">> =>
              /\ ex[e].attempts # << >>
              /\ Last(ex[e].attempts).ok /\ Last(ex[e].attempts).nonEmpty

\* C3 witness: Complete was reported after an earlier attempt that failed and
\* left the directory non-empty
C3_Witness ==
    \E e \in Execs :
        /\ ex[e].report = <<"Complete">>
        /\ \E i \in 1..(Len(ex[e].attempts) - 1) :
              ~ex[e].attempts[i].ok /\ ex[e].attempts[i].nonEmpty

\* the loop of e has made its report
Reported(e) == ex[e].polled /\ ex[e].report # << >>
\* a fetch attempt of e starts in this step
AttemptStarts(e) == ex[e].pc = "poll_head" /\ ex'[e].pc = "cli_check"

\* C4 as stated: a loop that makes its report when the time since polling
\* began has reached the timeout reports TimedOut.
C4_TimedOutOnceTimeoutReached ==
    \A e \in Execs :
        Reported(e) /\ ex[e].endAt - ex[e].start >= TimeoutMs =>
            ex[e].report = <<"TimedOut">>

\* C4 amended: no fetch attempt starts once the time since polling began has
\* reached the timeout; the loop makes exactly one report and ends with it;
\* TimedOut is reported only with the timeout reached, and a report made
\* with the timeout reached is TimedOut unless the attempt that was started
\* before the timeout succeeded with a non-empty directory (then Complete);
\* every loop comes to its report, and with a fetch that always leaves the
\* directory empty the report is TimedOut and never Complete.
C4_NoAttemptAfterTimeout ==
    /\ [][\A e \in Execs : AttemptStarts(e) => now - ex[e].start < TimeoutMs]_vars
    /\ [][\A e \in Execs : Reported(e) => ex'[e].report = ex[e].report]_vars
    /\ [](\A e \in Execs :
            /\ Len(ex[e].report) <= 1
            /\ Reported(e) => ex[e].pc = "done"
            /\ ex[e].report = <<"TimedOut">> => ex[e].endAt - ex[e].start >= TimeoutMs
            /\ ex[e].report = <<"Complete">> =>
                  /\ ex[e].attemptAt - ex[e].start < TimeoutMs
                  /\ Last(ex[e].attempts).ok /\ Last(ex[e].attempts).nonEmpty)
    /\ <>(\E e \in Execs : Reported(e))
    /\ (stubN = Never => <>(\E e \in Execs : ex[e].report = <<"TimedOut">>))
    /\ (stubN = Never => [](\A e \in Execs : ex[e].report # <<"Complete">>))

\* C4 witness: TimedOut was reported after at least one attempt
C4_Witness ==
    \E e \in Execs : ex[e].report = <<"TimedOut">> /\ ex[e].attempts # << >>

\* C5: once polling has begun no error is shown by the command and it is not
\* rejected, whatever failed in a fetch attempt; the execution is in the loop
\* until it ends with the report Complete or TimedOut.
C5_FetchFailureSwallowed ==
    \A e \in Execs : ex[e].polled =>
        /\ ex[e].errors = {}
        /\ ~ex[e].rejected
        /\ ex[e].pc = "done" => ex[e].report \in {<<"Complete">>, <<"TimedOut">>}
        /\ ex[e].pc # "done" => InPollLoop(ex[e]) /\ ex[e].report = << >>

\* C5 witness: a loop has ended after an attempt whose process exited with
\* an error
C5_Witness ==
    \E e \in Execs :
        /\ ex[e].pc = "done" /\ ex[e].polled
        /\ \E i \in 1..Len(ex[e].attempts) : ~ex[e].attempts[i].ok
        /\ fetchCount > 0

\* the loop of e has ended, with interval 1 s and timeout (n + 2) s, and
\* every attempt it made left the directory empty up to the n-th and
\* non-empty from attempt n + 1 on
StubRun(e, n) ==
    /\ ex[e].pc = "done" /\ ex[e].polled
    /\ stubN = n
    /\ cfg.pollIntervalSeconds = 1
    /\ cfg.pollTimeoutSeconds = n + 2
    /\ \A i \in 1..Len(ex[e].attempts) : ex[e].attempts[i].nonEmpty = (i > n)

\* every attempt of e succeeded, and at its loop-head checks the loop was
\* less than (timeout - n) seconds behind the n sleeps
Prompt(e, n) ==
    /\ \A i \in 1..Len(ex[e].attempts) : ex[e].attempts[i].ok
    /\ ex[e].headLag < (cfg.pollTimeoutSeconds - n) * MsPerSecond

ValidField(o, k) == Has(o, k) /\ o[k].type = "string" /\ o[k].text # << >>
\* the source holds a structurally valid pair
ValidPair(src) ==
    src.kind = "json" /\ ValidField(src.obj, "username") /\ ValidField(src.obj, "key")
\* the two discrete environment variables, read as a source
EnvPair == Json([username |-> Str(env.KAGGLE_USERNAME), key |-> Str(env.KAGGLE_KEY)])
\* the three sources in the fixed order
Sources == <<secrets, env.KAGGLE_TOKEN_JSON, EnvPair>>
\* the execution has been through getKaggleCreds in its current call
Resolved(e) == ex[e].inv.resolved

\* C11 as stated: when some source holds a structurally valid pair (both
\* fields non-empty strings), the resolution succeeds and returns exactly
\* the username and key of the first such source in the order secret
\* store, KAGGLE_TOKEN_JSON, KAGGLE_USERNAME + KAGGLE_KEY; sources before it
\* that are malformed or lack a valid field are passed over without error.
C11_FirstValidSourceWins ==
    \A e \in Execs : \A i \in 1..3 :
        /\ Resolved(e)
        /\ ValidPair(Sources[i])
        /\ \A j \in 1..(i - 1) : ~ValidPair(Sources[j])
        => /\ ex[e].inv.credsOk
           /\ ex[e].creds = [ok |-> TRUE, username |-> Sources[i].obj.username,
                             key |-> Sources[i].obj.key]

\* a field that is missing or the empty string
LacksField(o, k) == ~Has(o, k) \/ o[k] = Str(<< >>)
\* the source is absent, malformed, or has an empty or missing field
Lacking(src) ==
    \/ src.kind \in {"unset", "malformed"}
    \/ src.kind = "json" /\ (LacksField(src.obj, "username") \/ LacksField(src.obj, "key"))

C13_SpawnAfterProbeAndCreds ==
    /\ [](\A e \in Execs :
            LET i == ex[e].inv
            IN  /\ ex[e].pc = "cli_exec" => i.spawned
                /\ i.spawned => i.probeOk /\ i.credsOk
                /\ i.resolved => i.probeOk
                /\ ex[e].pc = "cli_creds" => i.probeOk /\ ~i.resolved /\ ~i.spawned
                /\ i.probed /\ ~i.probeOk =>
                      /\ i.fail = "CliUnavailable"
                      /\ "CliUnavailable" \in ex[e].modals
                      /\ ~i.resolved /\ ~i.spawned
                      /\ ex[e].pc \notin {"cli_creds", "cli_exec"})
    /\ [][\A e \in Execs :
            ex'[e].spawns > ex[e].spawns =>
                /\ ex[e].pc = "cli_creds" /\ ex[e].inv.probeOk
                /\ getKaggleCreds(secrets, env).ok
                /\ ex'[e].spawns = ex[e].spawns + 1]_vars

\* C13 witness: a call has failed with CliUnavailable while a valid token
\* was stored
C13_Witness ==
    \E e \in Execs :
        /\ ex[e].inv.fail = "CliUnavailable" /\ ~ex[e].inv.resolved
        /\ getKaggleCreds(secrets, env).ok

\* C14: every call makes its own version probe and goes by what that probe
\* finds at the time: the call goes on to the credentials exactly when the
\* binary is there now, whatever an earlier call of the execution found.
C14_ProbeOnEveryCall ==
    /\ [](\A e \in Execs :
            ex[e].pc \in {"cli_creds", "cli_exec"} => ex[e].inv.probed)
    /\ [][\A e \in Execs :
            ex[e].pc = "cli_check" /\ ex'[e].pc # "cli_check" =>
                /\ ex'[e].inv.probed
                /\ ex'[e].inv.probeOk = cliInstalled
                /\ (ex'[e].pc = "cli_creds") = cliInstalled
                /\ (ex'[e].inv.fail = "CliUnavailable") = ~cliInstalled]_vars

\* C14 witness: an execution whose earlier call spawned its process has a
\* later call that failed with CliUnavailable
C14_Witness ==
    \E e \in Execs : ex[e].spawns >= 1 /\ ex[e].inv.fail = "CliUnavailable"

\* the key the current call of e resolved, as text
KeyText(e) == ToText(ex[e].creds.key)

\* C15: the process of every call is started with the inherited environment
\* in which KAGGLE_USERNAME and KAGGLE_KEY are set to the resolved
\* credentials, every other variable being as inherited; the key is in no
\* argument, not in the command line and not in the echo.
C15_CredsOnlyInEnvironment ==
    \A e \in Execs : ex[e].inv.spawned =>
        /\ DOMAIN ex[e].childEnv = DOMAIN env
        /\ \A v \in DOMAIN env \ {"KAGGLE_USERNAME", "KAGGLE_KEY"} :
              ex[e].childEnv[v] = env[v]
        /\ ex[e].childEnv.KAGGLE_USERNAME = ToText(ex[e].creds.username)
        /\ ex[e].childEnv.KAGGLE_KEY = KeyText(e)
        /\ \A i \in 1..Len(ex[e].args) : ~Contains(ex[e].args[i], KeyText(e))
        /\ ~Contains(ex[e].cmdLine, KeyText(e))
        /\ ~Contains(ex[e].echo, KeyText(e))

\* C15 witness: a process was started with the stored key over an inherited
\* environment that held another key
C15_Witness ==
    \E e \in Execs :
        /\ ex[e].inv.spawned
        /\ env.KAGGLE_KEY = Key3
        /\ ex[e].childEnv.KAGGLE_KEY = Key1

\* C16 as stated: an execution in which a credential resolution has failed
\* has shown the NoCredentials error and has made no call after the failure.
C16_NoCredentialsSurfaced ==
    \A e \in Execs : ex[e].noCreds =>
        "NoCredentials" \in ex[e].errors /\ ~ex[e].retried

\* C16 amended: a credential resolution that fails in a call made by a
\* command itself (push, download) ends the command with the NoCredentials
\* error shown, without a process and without another call; one that fails
\* in a fetch of the poll loop is not shown, the loop goes on to its sleep
\* and calls again while time is left, and later calls are made only there.
C16_SurfacedOutsidePollLoop ==
    \A e \in Execs :
        /\ ex[e].noCreds /\ ~ex[e].polled =>
              /\ "NoCredentials" \in ex[e].errors
              /\ ex[e].pc = "done"
              /\ ~ex[e].inv.spawned
              /\ ~ex[e].retried
        /\ ex[e].noCreds /\ ex[e].polled =>
              /\ ex[e].errors = {}
              /\ ex[e].pc = "done" => ex[e].report \in {<<"Complete">>, <<"TimedOut">>}
        /\ ex[e].retried => ex[e].polled

\* C16 witness: a poll loop has called again after a fetch of it failed
\* with NoCredentials
C16_Witness ==
    \E e \in Execs : ex[e].polled /\ ex[e].noCreds /\ ex[e].retried


\* C20 as stated: the command line of every process whose argument holds a
\* single quote, a double quote or a space is split by the tokenizer of the
\* platform into the CLI path followed by exactly the arguments of the call.
C20_EscapedArgsRoundTrip ==
    \A e \in Execs :
        (/\ ex[e].inv.spawned
         /\ \E i \in DOMAIN ex[e].arg : ex[e].arg[i] \in {SQ, DQ, SP}) =>
            Tokenize(platform, ex[e].cmdLine) = <<CliPath>> \o ex[e].args

(***************************************************************************)
(* The project files (ProjectSpec).                                        *)
(***************************************************************************)
\* the commands that load kaggle.yml
Loaders ==
    {"attachDataset", "attachDatasetFromTree", "pushRun", "runCurrentNotebook",
     "downloadOutputs"}

\* the execution got as far as loading kaggle.yml: its prompt was answered
\* and the active editor held a notebook
Loads(x) ==
    /\ x.cmd \in Loaders
    /\ x.cmd \in {"attachDataset", "attachDatasetFromTree"} => x.arg # ""
    /\ "NotANotebook" \notin x.errors

\* C17 as stated: a command that loads kaggle.yml and has ended while the
\* file is absent has offered the initialization of the project, and has not
\* shown the error of the failed read unless the offer had been made.
C17_MissingFileOffersInit ==
    \A e \in Execs :
        (Loads(ex[e]) /\ ex[e].pc = "done" /\ ymlFile = Absent) => ex[e].offered

\* the entries of a datasets list that are the dataset
Entries(yml, ds) ==
    IF Has(yml, "datasets") THEN {i \in DOMAIN yml.datasets : yml.datasets[i] = ds}
    ELSE {}

\* the step in which an attach command writes kaggle.yml
AttachWrites(e) ==
    /\ ex[e].pc \in {"ad_writeYml", "adt_writeYml"}
    /\ ex'[e].pc = "done"

\* C19: every attach leaves exactly one entry for its dataset in the
\* datasets list, and an attach that follows an attach of the same dataset
\* (by either command) writes the list that was there.
C19_AttachIdempotent ==
    [][\A e \in Execs : AttachWrites(e) =>
          /\ Cardinality(Entries(ymlFile', ex[e].arg)) = 1
          /\ ex[e].prevAttach = ex[e].arg => ymlFile' = ymlFile]_vars

\* C19 witness: the dataset has been attached a second time in a row, this
\* time from the tree, to a list that holds another entry as well
C19_Witness ==
    /\ ex["e1"].cmd = "attachDatasetFromTree"
    /\ ex["e1"].pc = "done"
    /\ ex["e1"].prevAttach = ex["e1"].arg
    /\ "Attached dataset" \in ex["e1"].infos
    /\ Cardinality(Entries(ymlFile, ex["e1"].arg)) = 1
    /\ Len(ymlFile.datasets) = 2

\* C18 as stated: once the project has pushed to a kernel, every push is
\* submitted under a kernel it has pushed to before or that linkNotebook
\* has pulled: at the start of the push process the id in
\* kernel-metadata.json and kernel_slug in kaggle.yml are such a kernel.
C18_SlugStable ==
    \A e \in Execs :
        (ex[e].pc = "cli_exec" /\ ex[e].cliFor = "push" /\ linked # {}) =>
            /\ PushedId \in linked
            /\ ymlFile # Absent /\ Has(ymlFile, "kernel_slug") =>
                  ymlFile.kernel_slug \in linked


(***************************************************************************)
(* The poll loop, one iteration after the other (PollSpec).                *)
(***************************************************************************)
\* the fetch processes the loop of e1 has started and that have not exited
\* (the first process of the execution was its push)
InFlight == ex["e1"].spawns - 1 - fetchCount

\* C21: the loop has at most one fetch process, and it has one only while it
\* awaits it; when the sleep begins the process has exited and the attempt
\* is on record (the directory scanned, or the failure caught); a fetch is
\* started only when no other is running and the sleep before it has ended.
C21_OneFetchAtATime ==
    /\ [](/\ InFlight \in {0, 1}
          /\ InFlight = 1 <=> ex["e1"].pc = "cli_exec"
          /\ ex["e1"].pc = "poll_sleep" =>
                ex["e1"].attempts # << >> /\ ex["e1"].wake >= now)
    /\ [][ex'["e1"].spawns > ex["e1"].spawns =>
              /\ InFlight = 0
              /\ now >= ex["e1"].wake
              /\ ex["e1"].spawns - 1 <= Len(ex["e1"].attempts)]_vars

\* C21 witness: the second fetch of a loop is running, the first has exited
\* and the sleep after it is over
C21_Witness ==
    /\ ex["e1"].pc = "cli_exec"
    /\ ex["e1"].spawns = 3
    /\ fetchCount = 1
    /\ Len(ex["e1"].attempts) = 1
    /\ now >= ex["e1"].wake


(***************************************************************************)
(* The command triggered twice (TwiceSpec).                                *)
(***************************************************************************)
\* C22: whatever the other execution is doing, an execution that is not
\* running can be started, one that is about to probe, to resolve the
\* credentials and spawn, or to see its process exit can do so, and no
\* execution ends with an error other than those of its own call.
C22_NoMutualExclusion ==
    \A e \in Execs :
        /\ (ex[e].pc \in {"idle", "done"} /\ triggers < MaxTriggers) =>
              ENABLED Trigger(e, "runCurrentNotebook", EdaIpynb)
        /\ ex[e].pc = "cli_check" => ENABLED CliCheck(e)
        /\ ex[e].pc = "cli_creds" => ENABLED CliCreds(e)
        /\ ex[e].pc = "cli_exec" => ENABLED CliExit(e)
        /\ ex[e].errors \subseteq {"CliError"}
        /\ ~ex[e].rejected

\* C22 witness: both executions have their push process running
C22_Witness == Pushing("e1") /\ Pushing("e2")


(***************************************************************************)
(* Attach commands that overlap (AttachSpec).                              *)
(***************************************************************************)
\* the datasets of a kaggle.yml, as a set
Listed(yml) ==
    IF yml # Absent /\ Has(yml, "datasets")
    THEN {yml.datasets[i] : i \in DOMAIN yml.datasets} ELSE {}

\* C23 as stated: no step takes a dataset off the list in kaggle.yml, and
\* when no attach command is running the list holds the dataset of every
\* attach that has completed.
C23_AttachNeverRemoves ==
    /\ [][Listed(ymlFile) \subseteq Listed(ymlFile')]_vars
    /\ []((\A e \in Execs : ex[e].pc \in {"idle", "done"}) =>
             \A e \in Execs :
                 /\ Attached(ex[e]) # "" => Attached(ex[e]) \in Listed(ymlFile)
                 /\ ex[e].prevAttach # "" => ex[e].prevAttach \in Listed(ymlFile))


\* C24: the step in which a loop reports Complete is the directory scan that
\* follows the return of a fetch process of that loop which exited without
\* error, and the scan finds files; a loop that has reported Complete has
\* started a fetch process, and its last attempt is that successful one.
C24_CompleteOnlyAfterSuccessfulFetch ==
    /\ [][\A e \in Execs :
            (ex'[e].report # ex[e].report /\ ex'[e].report = <<"Complete">>) =>
                /\ ex[e].pc = "poll_readdir"
                /\ ex[e].cliFor = "output"
                /\ ex[e].inv.spawned /\ ex[e].inv.fail = "none"
                /\ outDir # {}]_vars
    /\ [](\A e \in Execs : ex[e].report = <<"Complete">> =>
            /\ ex[e].polled
            /\ ex[e].spawns >= 2 /\ fetchCount >= 1
            /\ ex[e].inv.fail = "none"
            /\ Last(ex[e].attempts).ok)

\* C24 witness: Complete was reported by the second attempt, the first fetch
\* having failed on an empty directory
C24_Witness ==
    /\ ex["e1"].report = <<"Complete">>
    /\ ex["e1"].attempts = <<[ok |-> FALSE, nonEmpty |-> FALSE],
                             [ok |-> TRUE, nonEmpty |-> TRUE]>>
    /\ ex["e1"].spawns = 3


(***************************************************************************)
(* The synced metadata (Spec).                                             *)
(***************************************************************************)
\* kernel_type as the extension of the entry file gives it
TypeOf(codeFile) == IF EndsWith(codeFile, DotIpynb) THEN "notebook" ELSE "script"

\* C25 as stated: the metadata a submitting command has synced and written
\* holds the kernel_type that the extension of its code_file gives.
C25_KernelTypeFollowsCodeFile ==
    \A e \in Execs : ex[e].derived =>
        /\ Has(ex[e].meta, "kernel_type") /\ Has(ex[e].meta, "code_file")
        /\ ex[e].meta.kernel_type = TypeOf(ex[e].meta.code_file)


(***************************************************************************)
(* The runs view (RunsSpec).                                               *)
(***************************************************************************)
RECURSIVE FilesUnder(_)
\* the modification times of the files in a directory and below it
FilesUnder(dir) == dir.files \cup UNION {FilesUnder(d) : d \in dir.dirs}

\* the files under the output directory kaggle.yml names (.kaggle-outputs by
\* default); none when that directory is missing
OutputFiles ==
    LET named == ymlFile # Absent /\ Has(ymlFile, "outputs")
                 /\ Has(ymlFile.outputs, "download_to")
    IN  IF named /\ ymlFile.outputs.download_to # DefaultOut THEN {}
        ELSE FilesUnder([files |-> outDir, dirs |-> outSub])

Wanted == IF csv.kind = "kernels" THEN "ref" ELSE "name"

\* C27 as stated: a listing that has been read was split into exactly the
\* field values the CLI encoded, in order, and the value taken for the
\* wanted column is the value of the field under the header of that name.
C27_CsvParsedQuoteAware ==
    csv.parsed =>
        /\ csv.cols = csv.fields
        /\ \E k \in DOMAIN csv.header :
              /\ csv.header[k] = Wanted
              /\ csv.items # << >>
              /\ csv.items[1][Wanted] = csv.fields[k]


(***************************************************************************)
(* The sleep of the poll loop (PollSpec).                                  *)
(***************************************************************************)
\* the larger of two numbers
Max(a, b) == IF a >= b THEN a ELSE b

\* the execution starts a fetch in this step
StartsFetch(e) == ex[e].pc = "poll_head" /\ ex'[e].cliFor = "output" /\ ex'[e].pc # "done"
                  /\ ex'[e].pc # "poll_head"

\* C28: for every configured interval, 0 included, a sleep of the poll loop
\* lasts max(1000 ms, interval * 1000 ms): it is set to end that long after
\* it began and the loop does not go on before; so a fetch that is not the
\* first of its loop starts at least 1000 ms, and at least the interval,
\* after the one before it.
C28_SleepAtLeastOneSecond ==
    [][\A e \in Execs :
         LET floor == Max(1000, cfg.pollIntervalSeconds * 1000)
         IN  /\ (ex[e].pc # "poll_sleep" /\ ex'[e].pc = "poll_sleep")
                    => ex'[e].wake - now = floor
             /\ (ex[e].pc = "poll_sleep" /\ ex'[e].pc # "poll_sleep")
                    => now >= ex[e].wake
             /\ (StartsFetch(e) /\ ex[e].attempts # << >>)
                    => /\ ex'[e].attemptAt - ex[e].attemptAt >= 1000
                       /\ ex'[e].attemptAt - ex[e].attemptAt >= floor]_vars

\* C28 witness: with the interval set to 0 the second fetch of a loop is
\* running, started exactly 1000 ms after the first
C28_Witness ==
    \E e \in Execs :
        /\ cfg.pollIntervalSeconds = 0
        /\ ex[e].pc = "cli_exec" /\ ex[e].cliFor = "output"
        /\ Len(ex[e].attempts) = 1
        /\ ex[e].attemptAt - ex[e].start = 1000


(***************************************************************************)
(* Signing in and out (AuthSpec).                                          *)
(***************************************************************************)
\* no command kaggle.signIn or kaggle.signOut is under way and no handler
\* of onDidChange is pending
AuthQuiet ==
    /\ \A e \in Execs : auth.run[e].pc \in {"idle", "done"}
    /\ auth.reading = 0 /\ auth.setTrue = 0 /\ auth.setFalse = 0

Moves(e) == auth'.run[e] # auth.run[e]

\* C30: a sign-in that reaches the store writes a document holding a pair;
\* the delete of kaggle.signOut leaves the secret store without an entry,
\* the store stays without one until a sign-in stores a token, and from a
\* store without an entry credentials resolve to nothing or to a pair of the
\* environment; a sign-in canceled at a prompt ends with the error
\* "Sign in canceled.", has stored nothing and leaves the store as it was.
C30_StoredAtSignInClearedAtSignOut ==
    /\ [][\A e \in Execs :
            /\ (Moves(e) /\ auth.run[e].pc = "si_store")
                   => (secrets' = auth.run[e].doc /\ PairOf(secrets').ok)
            /\ (Moves(e) /\ auth.run[e].pc = "so_delete") => secrets' = Unset
            /\ (Moves(e) /\ auth'.run[e].errors # {})
                   => /\ auth'.run[e].errors = {"Sign in canceled."}
                      /\ auth'.run[e].pc = "done"
                      /\ ~auth'.run[e].stored
                      /\ secrets' = secrets]_vars
    /\ [][(secrets = Unset /\ secrets' # Unset)
             => \E e \in Execs : Moves(e) /\ auth.run[e].cmd = "signIn"
                                 /\ auth.run[e].pc = "si_store"]_vars
    /\ [](secrets = Unset =>
            LET c == getKaggleCreds(secrets, env)
            IN  c.ok => \/ c = PairOf(env.KAGGLE_TOKEN_JSON)
                        \/ /\ c.username = Str(env.KAGGLE_USERNAME)
                           /\ c.key = Str(env.KAGGLE_KEY))

\* C30 witness: kaggle.signOut has completed on a store that held a token,
\* a sign-in was canceled at a prompt, the store holds no entry and
\* credentials resolve from the environment
C30_Witness ==
    \E e, o \in Execs :
        /\ auth.run[e].cmd = "signOut" /\ auth.run[e].pc = "done"
        /\ auth.run[o].cmd = "signIn" /\ auth.run[o].errors = {"Sign in canceled."}
        /\ secrets = Unset
        /\ getKaggleCreds(secrets, env).ok

====
